---- MODULE Spec2Model ----
(***************************************************************************)
(* Request-lifecycle reconciliation of med-las/hobbyfarmkratix.            *)
(*                                                                         *)
(* Three reconciliation loops are modelled, each as the sequence of        *)
(* handlers its Go loop calls, one action per handler:                     *)
(*   - the Kratix controller  (internal/kratix_controller.go),             *)
(*   - the HobbyFarm -> Kratix bridge                                      *)
(*                            (internal/hobbyfarm_kratix_integration.go),  *)
(*   - the TrainingVM allocator (CleanupVMStatuses, AllocateTrainingVMs).  *)
(* The declarative store, the liveness probe, the provisioner and the      *)
(* cloud are the environment: what a store call, a probe or a playbook run *)
(* returns is an input of the handler that makes the call.                 *)
(*                                                                         *)
(* Time is counted in whole seconds, the resolution of the RFC3339         *)
(* timestamps the code writes; the clock is observed at the instants of    *)
(* KratixInstants / TVMInstants.                                           *)
(***************************************************************************)
EXTENDS Integers, Sequences, FiniteSets, TLC

VARIABLES
    now,                \* wall clock, seconds
    requests,           \* store: VMProvisioningRequest records, by name
    processedRequests,  \* KratixController.processedRequests
    usedIPs,            \* KratixController.usedIPs
    instances,          \* store: Instance "training-<session>", by request
    ec2vms,             \* store: EC2TrainingVMs labelled kratix-request=<name>
    pc,                 \* position of the Kratix controller loop
    allocSince,         \* history: when each request last entered allocated
    failedSince,        \* history: when each request entered failed/released
    creates,            \* history: Create calls issued for each request's
                        \* Instance record
    sessions,           \* store: HobbyFarm Session records, by name
    virtualMachines,    \* store: HobbyFarm VirtualMachine records, by name
    processedSessions,  \* HobbyFarmKratixIntegration.processedSessions
    updatedVMs,         \* HobbyFarmKratixIntegration.updatedVMs (the ledger)
    bpc,                \* position of the bridge loop
    vmBy,               \* history: the request last projected onto each VM
    projected,          \* history: the requests projected onto some VM
    settled,            \* history: the last bridge update step met no store
                        \* error, and no request, session or VirtualMachine
                        \* was changed from outside the bridge since
    trainingVMs,        \* store: TrainingVM records, by name
    ec2TrainingVMs,     \* store: EC2TrainingVM "ec2-<name>", by TrainingVM
    tvmUsedIPs,         \* the usedIPs map CleanupVMStatuses hands over
    tpc,                \* position of the TrainingVM allocator tick
    ec2Records,         \* store: EC2TrainingVM records as the periodic
                        \* cleanup lists them, by name
    stateSince,         \* history: when each EC2TrainingVM entered its state
    cpc,                \* position of the periodic cleanup routine
    passPc,             \* overlapping allocateVMs passes: position of each
    passUsed,           \* the usedIPs map of each pass
    passList,           \* the request list each pass iterates over
    passNext,           \* the index each pass has reached in its list
    passEarly,          \* history: the pass refreshed its usedIPs before any
                        \* write of another pass had landed
    wrote,              \* history: the requests each pass has written
    reachable,          \* the pool addresses that answer the liveness probe
    cancelled,          \* the process context ctx has been cancelled
    supPc,              \* position of runControllerWithRetry, by controller
    loopPc,             \* position of the loop run as controllerFunc
    retryCount,         \* runControllerWithRetry's retryCount
    backoffFor,         \* the duration of the last backoff sleep, seconds
    crashes,            \* history: the controller's crashes since it was
                        \* started or last returned normally
    addr,               \* the address string handed to isPublicIP
    classified,         \* what isPublicIP returned for it ("" before the call)
    directVMs           \* store: HobbyFarm VirtualMachine records as the
                        \* HobbyFarm controller lists them, by name

kratixOnly == <<processedRequests, usedIPs, instances, ec2vms, pc, allocSince,
                failedSince, creates>>

bridgeVars == <<sessions, virtualMachines, processedSessions, updatedVMs,
                bpc, vmBy, projected, settled>>

tvmVars == <<trainingVMs, ec2TrainingVMs, tvmUsedIPs, tpc>>

cleanupVars == <<ec2Records, stateSince, cpc>>

overlapVars == <<passPc, passUsed, passList, passNext, passEarly, wrote,
                 reachable>>

superVars == <<cancelled, supPc, loopPc, retryCount, backoffFor, crashes>>

classifyVars == <<addr, classified>>

directVars == <<directVMs>>

laterVars == <<classifyVars, directVars>>

auxVars == <<cleanupVars, overlapVars, superVars, laterVars>>

vars == <<now, requests, kratixOnly, bridgeVars, tvmVars, auxVars>>

----------------------------------------------------------------------------
(* Bounds *)

MaxReq == 2

Names == 1..MaxReq

MaxUser == 2

Users == 1..MaxUser

MaxVM == 1

VMNames == 1..MaxVM

MaxCalls == 2

MaxPass == 2

MaxCrash == 6

MaxDirectVM == 2

DirectVMNames == 1..MaxDirectVM

Passes == 1..MaxPass

(* Program constants, in seconds *)

BootWaitStatic == 30
BootWaitEC2 == 120
AllocationTimeout == 3600
ProcessedTTL == 86400

NoTime == -1

ElasticGrace == 600

maxRetries == 5
BackoffUnit == 10

FailedInstanceTTL == 300
PendingInstanceTTL == 600

KratixInstants == {0, BootWaitStatic, AllocationTimeout + 1}

TVMInstants == {0, BootWaitStatic, ElasticGrace, AllocationTimeout + 1}

----------------------------------------------------------------------------
(* Addresses: dotted quads as tuples of octets; the empty string is <<>>. *)

NoIP == <<>>

staticVMPool == << <<192, 168, 2, 37>>, <<192, 168, 2, 38>> >>

PoolIPs == {staticVMPool[i] : i \in 1..Len(staticVMPool)}

InstanceIP(r) == <<54, 0, 0, r>>

CloudVMIP(r) == <<54, 1, 0, r>>

FallbackIP(n) == <<54, 2, 0, n>>

Digits(n) ==
    IF n < 10 THEN <<n>>
    ELSE IF n < 100 THEN <<n \div 10, n % 10>>
    ELSE <<n \div 100, (n \div 10) % 10, n % 10>>

RECURSIVE StrLeqFrom(_, _, _)
StrLeqFrom(a, b, i) ==
    IF i > Len(a) THEN TRUE
    ELSE IF i > Len(b) THEN FALSE
    ELSE IF a[i] < b[i] THEN TRUE
    ELSE IF a[i] > b[i] THEN FALSE
    ELSE StrLeqFrom(a, b, i + 1)

StrLeq(a, b) == StrLeqFrom(a, b, 1)

(* net.ParseIP on a dotted quad: four decimal octets, each at most 255. *)
ParseIP(ip) == Len(ip) = 4 /\ \A i \in 1..4 : ip[i] \in 0..255

(* second >= "16" && second <= "31": a comparison of strings, byte by byte. *)
InSecondOctetRange(o) ==
    StrLeq(<<1, 6>>, Digits(o)) /\ StrLeq(Digits(o), <<3, 1>>)

isPublicIP(ip) ==
    IF ip = NoIP THEN FALSE
    ELSE IF ~ParseIP(ip) THEN FALSE
    ELSE IF (ip[1] = 192 /\ ip[2] = 168) \/ ip[1] = 10 THEN FALSE
    ELSE IF ip[1] = 172 /\ InSecondOctetRange(ip[2]) THEN FALSE
    ELSE IF ip[1] = 169 /\ ip[2] = 254 THEN FALSE
    ELSE IF ip[1] = 127 THEN FALSE
    ELSE TRUE

getBootWaitTime(ip) == IF isPublicIP(ip) THEN BootWaitEC2 ELSE BootWaitStatic

getSSHUsername(ip) == IF isPublicIP(ip) THEN "ubuntu" ELSE "kube"

----------------------------------------------------------------------------
(* The store's VMProvisioningRequest records *)

NoRequest ==
    [exists |-> FALSE, fallback |-> FALSE, state |-> "", vmIP |-> NoIP,
     vmType |-> "", provisioned |-> FALSE, allocatedAt |-> NoTime,
     readyAt |-> NoTime]

NewRequest(fb) == [NoRequest EXCEPT !.exists = TRUE, !.fallback = fb]

LiveStates == {"allocated", "provisioning", "ready"}

TerminalStates == {"ready", "failed"}

(* The status patch with provisioned left out when it is false, as vmIP and
   vmType are when they are empty. *)
updateRequestStatus_OmitFalse(rs, name, state, vmIP, vmType, provisioned) ==
    IF ~rs[name].exists THEN rs
    ELSE [rs EXCEPT ![name] =
            [@ EXCEPT !.state = state,
                      !.provisioned = IF provisioned THEN TRUE ELSE @,
                      !.vmIP = IF vmIP # NoIP THEN vmIP ELSE @,
                      !.vmType = IF vmType # "" THEN vmType ELSE @]]

(* A merge patch of status: state and provisioned always, vmIP and vmType
   only when not empty.  A patch of a record that is gone fails. *)
updateRequestStatus(rs, name, state, vmIP, vmType, provisioned) ==
    IF ~rs[name].exists THEN rs
    ELSE [rs EXCEPT ![name] =
            [@ EXCEPT !.state = state,
                      !.provisioned = provisioned,
                      !.vmIP = IF vmIP # NoIP THEN vmIP ELSE @,
                      !.vmType = IF vmType # "" THEN vmType ELSE @]]

setAllocatedAt(rs, name, t) ==
    IF ~rs[name].exists THEN rs
    ELSE [rs EXCEPT ![name].allocatedAt = t]

setReadyAt(rs, name, t) ==
    IF ~rs[name].exists THEN rs
    ELSE [rs EXCEPT ![name].readyAt = t]

(* History: the instant at which a request's status last became allocated
   with the handle it holds; kept while it is allocated or provisioning. *)
AllocHistory(old, new, hist, t) ==
    [r \in Names |->
        IF ~new[r].exists THEN NoTime
        ELSE IF new[r].state = "allocated"
                /\ (old[r].state \notin {"allocated", "provisioning"}
                    \/ old[r].vmIP # new[r].vmIP) THEN t
        ELSE IF new[r].state \in {"allocated", "provisioning"} THEN hist[r]
        ELSE NoTime]

(* History: the instant at which a request's state became failed or
   released; kept while it stays there. *)
FailHistory(old, new, hist, t) ==
    [r \in Names |->
        IF ~new[r].exists \/ new[r].state \notin {"failed", "released"}
        THEN NoTime
        ELSE IF old[r].state = new[r].state THEN hist[r]
        ELSE t]

----------------------------------------------------------------------------
(* Kratix controller: WatchVMProvisioningRequestsWithCloudMonitoring calls
   the five handlers in this order and sleeps. *)

(* processVMProvisioningRequests.  listOK: the List call succeeds;
   failed: the requests whose status patch fails in this call. *)
processVMProvisioningRequests(listOK, failed) ==
    /\ pc = "process"
    /\ pc' = "allocate"
    /\ IF ~listOK THEN UNCHANGED <<requests, processedRequests>>
       ELSE LET todo == {r \in Names : requests[r].exists
                                        /\ r \notin processedRequests}
                init == {r \in todo : requests[r].state = ""}
            IN  /\ requests' =
                     [r \in Names |->
                        IF r \in init \ failed
                        THEN updateRequestStatus(requests, r, "pending",
                                                 NoIP, "", FALSE)[r]
                        ELSE requests[r]]
                /\ processedRequests' =
                     processedRequests \cup (todo \ (init \cap failed))
    /\ allocSince' = AllocHistory(requests, requests', allocSince, now)
    /\ failedSince' = FailHistory(requests, requests', failedSince, now)
    /\ UNCHANGED <<now, usedIPs, instances, ec2vms, creates, bridgeVars, tvmVars,
                   auxVars>>

(* refreshUsedIPs: the map is emptied first, then filled from the List. *)
refreshUsedIPs(rs, listOK) ==
    IF ~listOK THEN {}
    ELSE {rs[r].vmIP : r \in {n \in Names : /\ rs[n].exists
                                             /\ rs[n].vmIP # NoIP
                                             /\ rs[n].state \in LiveStates}}

RECURSIVE FirstFit(_, _, _)
FirstFit(i, used, reach) ==
    IF i > Len(staticVMPool) THEN NoIP
    ELSE IF staticVMPool[i] \notin used /\ staticVMPool[i] \in reach
         THEN staticVMPool[i]
         ELSE FirstFit(i + 1, used, reach)

RECURSIVE LastFit(_, _, _)
LastFit(i, used, reach) ==
    IF i < 1 THEN NoIP
    ELSE IF staticVMPool[i] \notin used /\ staticVMPool[i] \in reach
         THEN staticVMPool[i]
         ELSE LastFit(i - 1, used, reach)

(* The pool scanned from its last address. *)
findAvailableStaticVM_Reversed(used, reach) ==
    LastFit(Len(staticVMPool), used, reach)

(* The pool scanned without the liveness probe. *)
findAvailableStaticVM_Unprobed(used, reach) == FirstFit(1, used, PoolIPs)

(* findAvailableStaticVM: first pool address not used and answering the
   probe (reach: the pool addresses that answer it). *)
findAvailableStaticVM(used, reach) == FirstFit(1, used, reach)

(* handleCloudFallback without the lookup of the existing Instance: the
   Create is issued on every call, and rejected when the record exists. *)
handleCloudFallback_NoLookup(st, r, o, t) ==
    LET issued == [st EXCEPT !.calls[r] = IF @ < MaxCalls THEN @ + 1 ELSE @]
    IN  IF o = "createErr" \/ st.inst[r] # "absent"
        THEN [issued EXCEPT !.reqs = updateRequestStatus(@, r, "failed",
                                         NoIP, "", FALSE)]
        ELSE [issued EXCEPT !.inst[r] = "starting"]

(* handleCloudFallback for request r.  st.inst[r]: "absent", "starting" or
   "running" (publicIp set and instanceState running).  Any error of the Get
   (o = "getErr": it fails although the record may exist) is taken for "no
   such Instance" and a Create is issued; the store rejects a Create of an
   existing name, and a rejected or failed Create fails the request. *)
handleCloudFallback(st, r, o, t) ==
    IF st.inst[r] # "absent" /\ o # "getErr"
    THEN IF st.inst[r] = "running" /\ o # "patchErr"
         THEN [st EXCEPT !.reqs = updateRequestStatus(@, r, "allocated",
                                        InstanceIP(r), "ec2", FALSE)]
         ELSE st
    ELSE LET issued ==
                 [st EXCEPT !.calls[r] = IF @ < MaxCalls THEN @ + 1 ELSE @]
         IN  IF o = "createErr" \/ st.inst[r] # "absent"
             THEN [issued EXCEPT !.reqs = updateRequestStatus(@, r, "failed",
                                              NoIP, "", FALSE)]
             ELSE [issued EXCEPT !.inst[r] = "starting"]

(* The listed request q is skipped whatever its state, unless it has an
   address. *)
SkipAllocation_AddressOnly(q) == q.vmIP # NoIP

(* "Skip if not pending or already has IP". *)
SkipAllocation(q) == q.state # "pending" \/ q.vmIP # NoIP

(* One iteration of allocateVMs' loop; snap is the listed copy. *)
AllocateOne(st, snap, r, reach, out, t) ==
    IF ~snap[r].exists \/ SkipAllocation(snap[r])
    THEN st
    ELSE LET selectedIP == findAvailableStaticVM(st.used, reach)
             o == IF r \in DOMAIN out THEN out[r] ELSE "ok"
         IN
         IF selectedIP # NoIP
         THEN IF o = "patchErr" THEN st
              ELSE [st EXCEPT
                      !.reqs = setAllocatedAt(
                                 updateRequestStatus(@, r, "allocated",
                                        selectedIP, "static", FALSE), r, t),
                      !.used = @ \cup {selectedIP}]
         ELSE IF snap[r].fallback
              THEN handleCloudFallback(st, r, o, t)
              ELSE st

RECURSIVE AllocateFrom(_, _, _, _, _, _)
AllocateFrom(st, snap, r, reach, out, t) ==
    IF r > MaxReq THEN st
    ELSE AllocateFrom(AllocateOne(st, snap, r, reach, out, t),
                      snap, r + 1, reach, out, t)

AllocOutcomes == {"ok", "patchErr", "getErr", "createErr"}

(* allocateVMs.  refreshOK, listOK: the two List calls succeed; reach: the
   pool addresses answering the probe; out[r]: what the store answers to
   the writes made for r. *)
allocateVMs(refreshOK, listOK, reach, out) ==
    /\ pc = "allocate"
    /\ pc' = "monitor"
    /\ LET used0 == refreshUsedIPs(requests, refreshOK)
           st0 == [reqs |-> requests, used |-> used0, inst |-> instances,
                   calls |-> creates]
           st == IF listOK
                 THEN AllocateFrom(st0, requests, 1, reach, out, now)
                 ELSE st0
       IN  /\ requests' = st.reqs
           /\ usedIPs' = st.used
           /\ instances' = st.inst
           /\ creates' = st.calls
    /\ allocSince' = AllocHistory(requests, requests', allocSince, now)
    /\ failedSince' = FailHistory(requests, requests', failedSince, now)
    /\ UNCHANGED <<now, processedRequests, ec2vms, bridgeVars, tvmVars,
                   auxVars>>

(* monitorCloudInstances: every listed EC2TrainingVM that carries a
   kratix-request label, an address and state running (or ready). *)
monitorCloudInstances(listOK, failed) ==
    /\ pc = "monitor"
    /\ pc' = "update"
    /\ requests' =
         [r \in Names |->
            IF listOK /\ r \in ec2vms \ failed
            THEN updateRequestStatus(requests, r, "allocated",
                                     CloudVMIP(r), "ec2", FALSE)[r]
            ELSE requests[r]]
    /\ allocSince' = AllocHistory(requests, requests', allocSince, now)
    /\ failedSince' = FailHistory(requests, requests', failedSince, now)
    /\ UNCHANGED <<now, processedRequests, usedIPs, instances, ec2vms,
                   creates, bridgeVars, tvmVars, auxVars>>

ProbeOutcomes ==
    {"unreachable", "sshTimeout", "playbookError", "ok", "patchLost"}

(* The requests updateVMStatus' loop body acts on. *)
Provisionable(rs) ==
    {r \in Names : /\ rs[r].exists
                   /\ rs[r].state = "allocated"
                   /\ rs[r].vmIP # NoIP
                   /\ ~rs[r].provisioned}

(* One iteration of updateVMStatus' loop on the listed copy q of request r.
   out[r]: "unreachable" (isVMReachable fails), "sshTimeout" (WaitForSSH
   fails), "playbookError" (runProvisioning fails), "ok"; "patchLost": the
   patch to provisioning lands and the later ones fail (their errors are
   ignored). *)
UpdateOne(rs, r, out, t) ==
    LET q == rs[r] IN
    IF r \notin Provisionable(rs) THEN q
    ELSE IF out[r] = "unreachable" THEN q
    ELSE IF q.allocatedAt # NoTime
            /\ t - q.allocatedAt < getBootWaitTime(q.vmIP) THEN q
    ELSE LET o == out[r]
             rs1 == updateRequestStatus(rs, r, "provisioning", q.vmIP, "",
                                        FALSE)
         IN  IF o = "patchLost" THEN rs1[r]
             ELSE IF o \in {"sshTimeout", "playbookError"}
             THEN updateRequestStatus(rs1, r, "failed", q.vmIP, "",
                                      FALSE)[r]
             ELSE setReadyAt(updateRequestStatus(rs1, r, "ready", q.vmIP,
                                                 "", TRUE), r, t)[r]

updateVMStatus(listOK, out) ==
    /\ pc = "update"
    /\ pc' = "cleanup"
    /\ requests' = [r \in Names |->
                      IF listOK THEN UpdateOne(requests, r, out, now)
                      ELSE requests[r]]
    /\ allocSince' = AllocHistory(requests, requests', allocSince, now)
    /\ failedSince' = FailHistory(requests, requests', failedSince, now)
    /\ UNCHANGED <<now, processedRequests, usedIPs, instances, ec2vms,
                   creates, bridgeVars, tvmVars, auxVars>>

Expired(q, t) ==
    /\ q.exists
    /\ q.state = "allocated"
    /\ q.allocatedAt # NoTime
    /\ t - q.allocatedAt > AllocationTimeout

Forgettable(q, t) ==
    /\ q.exists
    /\ q.state \in {"failed", "released"}
    /\ q.allocatedAt # NoTime
    /\ t - q.allocatedAt > ProcessedTTL

cleanupExpiredAllocations(listOK, failed) ==
    /\ pc = "cleanup"
    /\ pc' = "sleep"
    /\ requests' =
         [r \in Names |->
            IF listOK /\ Expired(requests[r], now) /\ r \notin failed
            THEN updateRequestStatus(requests, r, "failed", NoIP, "",
                                     FALSE)[r]
            ELSE requests[r]]
    /\ processedRequests' =
         IF listOK
         THEN processedRequests \ {r \in Names : Forgettable(requests[r], now)}
         ELSE processedRequests
    /\ allocSince' = AllocHistory(requests, requests', allocSince, now)
    /\ failedSince' = FailHistory(requests, requests', failedSince, now)
    /\ UNCHANGED <<now, usedIPs, instances, ec2vms, creates, bridgeVars, tvmVars,
                   auxVars>>

Sleep ==
    /\ pc = "sleep"
    /\ pc' = "process"
    /\ UNCHANGED <<now, requests, processedRequests, usedIPs, instances,
                   ec2vms, allocSince, failedSince,
                   creates, bridgeVars, tvmVars, auxVars>>

----------------------------------------------------------------------------
(* Environment of the Kratix controller *)

CreateRequest(r, fb) ==
    /\ pc = "sleep"
    /\ ~requests[r].exists
    /\ requests' = [requests EXCEPT ![r] = NewRequest(fb)]
    /\ UNCHANGED <<now, processedRequests, usedIPs, instances, ec2vms, pc,
                   allocSince, failedSince,
                   creates, bridgeVars, tvmVars, auxVars>>

DeleteRequest(r) ==
    /\ pc = "sleep"
    /\ requests[r].exists
    /\ requests' = [requests EXCEPT ![r] = NoRequest]
    /\ allocSince' = [allocSince EXCEPT ![r] = NoTime]
    /\ failedSince' = [failedSince EXCEPT ![r] = NoTime]
    /\ UNCHANGED <<now, processedRequests, usedIPs, instances, ec2vms, pc,
                   creates, bridgeVars, tvmVars, auxVars>>

InstanceRuns(r) ==
    /\ pc = "sleep"
    /\ instances[r] = "starting"
    /\ instances' = [instances EXCEPT ![r] = "running"]
    /\ UNCHANGED <<now, requests, processedRequests, usedIPs, ec2vms, pc,
                   allocSince, failedSince,
                   creates, bridgeVars, tvmVars, auxVars>>

CloudVMReady(r) ==
    /\ pc = "sleep"
    /\ requests[r].exists
    /\ requests[r].fallback
    /\ r \notin ec2vms
    /\ ec2vms' = ec2vms \cup {r}
    /\ UNCHANGED <<now, requests, processedRequests, usedIPs, instances, pc,
                   allocSince, failedSince,
                   creates, bridgeVars, tvmVars, auxVars>>

Advance(t) ==
    /\ pc = "sleep"
    /\ t > now
    /\ now' = t
    /\ UNCHANGED <<requests, processedRequests, usedIPs, instances, ec2vms,
                   pc, allocSince, failedSince,
                   creates, bridgeVars, tvmVars, auxVars>>

----------------------------------------------------------------------------
(* HobbyFarm -> Kratix bridge: WatchSessionsForKratix calls the four
   handlers in this order and sleeps.  The request of a session carries the
   session's name. *)

NoSession == [exists |-> FALSE, user |-> 0]

NoVM ==
    [exists |-> FALSE, user |-> 0, status |-> "", public_ip |-> NoIP,
     ssh_username |-> ""]

(* The sessions marked by one run, every session it tried to create a
   request for being marked whatever the Create call returned. *)
MarkedSessions_Attempted(attempted, created) == attempted

(* The sessions marked by one run of processHobbyFarmSessions: a failed
   Create takes the "continue" before the marker is set. *)
MarkedSessions(attempted, created) == created

(* processHobbyFarmSessions.  listOK: the List of sessions succeeds;
   failed: the sessions whose Create call fails in the store.  A Create also
   fails when a request of that name exists. *)
processHobbyFarmSessions(listOK, failed) ==
    /\ bpc = "process"
    /\ bpc' = "update"
    /\ LET attempted == IF listOK
                        THEN {s \in Names : /\ sessions[s].exists
                                            /\ s \notin processedSessions}
                        ELSE {}
           new == {s \in attempted : s \notin failed /\ ~requests[s].exists}
       IN  /\ requests' = [r \in Names |->
                             IF r \in new THEN NewRequest(TRUE)
                             ELSE requests[r]]
           /\ processedSessions' =
                 processedSessions \cup MarkedSessions(attempted, new)
           /\ settled' = (settled /\ new = {})
    /\ UNCHANGED <<now, kratixOnly, sessions, virtualMachines, updatedVMs,
                   vmBy, projected, tvmVars, auxVars>>

(* The loop of updateHobbyFarmVirtualMachine: the first listed VM of the
   session's user that meets one of the three cases; 0 when none does. *)
RECURSIVE MatchFrom(_, _, _, _)
MatchFrom(vms, v, user, ip) ==
    IF v > MaxVM THEN 0
    ELSE IF /\ vms[v].exists
            /\ vms[v].user = user
            /\ \/ vms[v].status = "readyforprovisioning"
                  /\ vms[v].public_ip = NoIP
               \/ vms[v].status = "ready"
         THEN v
         ELSE MatchFrom(vms, v + 1, user, ip)

(* performVMUpdate: status ready, the address fields set to vmIP, and
   spec.ssh_username set to the literal "kube". *)
performVMUpdate(vms, v, ip) ==
    [vms EXCEPT ![v].status = "ready", ![v].public_ip = ip,
                ![v].ssh_username = "kube"]

BridgeOutcomes == {"ok", "sessionGetErr", "vmListErr", "patchErr"}

(* updateHobbyFarmVirtualMachine for request r with address ip.  o: "ok",
   "sessionGetErr" (the Get of the session fails), "vmListErr" (the List of
   VirtualMachines fails), "patchErr" (the status patch and the whole-object
   patch both fail).  The result: the records, whether an error is returned,
   and the VM written (0: none). *)
updateHobbyFarmVirtualMachine(vms, r, ip, o) ==
    IF ~sessions[r].exists \/ o = "sessionGetErr"
    THEN [vms |-> vms, err |-> FALSE, wrote |-> 0]
    ELSE IF o = "vmListErr"
    THEN [vms |-> vms, err |-> TRUE, wrote |-> 0]
    ELSE LET v == MatchFrom(vms, 1, sessions[r].user, ip) IN
         IF v = 0 THEN [vms |-> vms, err |-> FALSE, wrote |-> 0]
         ELSE IF vms[v].status = "ready" /\ vms[v].public_ip = ip
         THEN [vms |-> vms, err |-> FALSE, wrote |-> 0]
         ELSE IF o = "patchErr"
         THEN [vms |-> vms, err |-> TRUE, wrote |-> 0]
         ELSE [vms |-> performVMUpdate(vms, v, ip), err |-> FALSE,
               wrote |-> v]

(* The requests updateHobbyFarmVMsFromKratix' loop body acts on. *)
Projectable ==
    {r \in Names : /\ requests[r].exists
                   /\ requests[r].state = "ready"
                   /\ requests[r].provisioned
                   /\ requests[r].vmIP # NoIP
                   /\ <<r, requests[r].vmIP>> \notin updatedVMs}

(* One iteration of updateHobbyFarmVMsFromKratix' loop. *)
ProjectOne(st, r, out) ==
    IF r \notin Projectable THEN st
    ELSE LET ip == requests[r].vmIP
             res == updateHobbyFarmVirtualMachine(st.vms, r, ip, out[r])
         IN  [vms |-> res.vms,
              ledger |-> IF res.err THEN st.ledger
                         ELSE st.ledger \cup {<<r, ip>>},
              by |-> IF res.wrote = 0 THEN st.by
                     ELSE [st.by EXCEPT ![res.wrote] = r],
              done |-> IF res.wrote = 0 THEN st.done ELSE st.done \cup {r},
              clean |-> st.clean /\ out[r] = "ok"]

RECURSIVE ProjectFrom(_, _, _)
ProjectFrom(st, r, out) ==
    IF r > MaxReq THEN st
    ELSE ProjectFrom(ProjectOne(st, r, out), r + 1, out)

(* updateHobbyFarmVMsFromKratix.  listOK: the List of requests succeeds;
   out[r]: what the store answers to the calls made for request r. *)
updateHobbyFarmVMsFromKratix(listOK, out) ==
    /\ bpc = "update"
    /\ bpc' = "cleanupSessions"
    /\ LET st0 == [vms |-> virtualMachines, ledger |-> updatedVMs,
                   by |-> vmBy, done |-> projected, clean |-> listOK]
           st == IF listOK THEN ProjectFrom(st0, 1, out) ELSE st0
       IN  /\ virtualMachines' = st.vms
           /\ updatedVMs' = st.ledger
           /\ vmBy' = st.by
           /\ projected' = st.done
           /\ settled' = st.clean
    /\ UNCHANGED <<now, requests, kratixOnly, sessions, processedSessions,
                   tvmVars, auxVars>>

(* cleanupProcessedSessions: the active set is filled only when the List
   succeeds; every marker outside it is deleted. *)
cleanupProcessedSessions(listOK) ==
    /\ bpc = "cleanupSessions"
    /\ bpc' = "cleanupVMs"
    /\ LET activeSessions == IF listOK
                             THEN {s \in Names : sessions[s].exists}
                             ELSE {}
       IN  processedSessions' = processedSessions \cap activeSessions
    /\ UNCHANGED <<now, requests, kratixOnly, sessions, virtualMachines,
                   updatedVMs, vmBy, projected, settled, tvmVars, auxVars>>

(* cleanupUpdatedVMs: the same, over the requests that have a vmIP. *)
cleanupUpdatedVMs(listOK) ==
    /\ bpc = "cleanupVMs"
    /\ bpc' = "sleep"
    /\ LET activeRequests ==
               IF listOK
               THEN {<<r, requests[r].vmIP>> :
                        r \in {n \in Names : /\ requests[n].exists
                                             /\ requests[n].vmIP # NoIP}}
               ELSE {}
       IN  updatedVMs' = updatedVMs \cap activeRequests
    /\ UNCHANGED <<now, requests, kratixOnly, sessions, virtualMachines,
                   processedSessions, vmBy, projected, settled, tvmVars,
                   auxVars>>

BridgeSleep ==
    /\ bpc = "sleep"
    /\ bpc' = "process"
    /\ UNCHANGED <<now, requests, kratixOnly, sessions, virtualMachines,
                   processedSessions, updatedVMs, vmBy, projected, settled,
                   tvmVars, auxVars>>

(* Environment of the bridge: HobbyFarm creates and deletes sessions and
   creates VirtualMachines; the Kratix controller brings a request to ready
   on a handle no other request holds; an operator clears a VirtualMachine's
   address. *)
CreateSession(s, u) ==
    /\ bpc = "sleep"
    /\ ~sessions[s].exists
    /\ sessions' = [sessions EXCEPT ![s] = [exists |-> TRUE, user |-> u]]
    /\ settled' = FALSE
    /\ UNCHANGED <<now, requests, kratixOnly, virtualMachines,
                   processedSessions, updatedVMs, bpc, vmBy, projected,
                   tvmVars, auxVars>>

DeleteSession(s) ==
    /\ bpc = "sleep"
    /\ sessions[s].exists
    /\ sessions' = [sessions EXCEPT ![s] = NoSession]
    /\ settled' = FALSE
    /\ UNCHANGED <<now, requests, kratixOnly, virtualMachines,
                   processedSessions, updatedVMs, bpc, vmBy, projected,
                   tvmVars, auxVars>>

CreateVirtualMachine(v, u) ==
    /\ bpc = "sleep"
    /\ ~virtualMachines[v].exists
    /\ virtualMachines' =
         [virtualMachines EXCEPT ![v] =
            [exists |-> TRUE, user |-> u, status |-> "readyforprovisioning",
             public_ip |-> NoIP, ssh_username |-> ""]]
    /\ settled' = FALSE
    /\ UNCHANGED <<now, requests, kratixOnly, sessions, processedSessions,
                   updatedVMs, bpc, vmBy, projected, tvmVars, auxVars>>

ClearAddress(v) ==
    /\ bpc = "sleep"
    /\ virtualMachines[v].exists
    /\ virtualMachines[v].public_ip # NoIP
    /\ virtualMachines' = [virtualMachines EXCEPT ![v].public_ip = NoIP]
    /\ settled' = FALSE
    /\ UNCHANGED <<now, requests, kratixOnly, sessions, processedSessions,
                   updatedVMs, bpc, vmBy, projected, tvmVars, auxVars>>

RequestBecomesReady(r, ip) ==
    /\ bpc = "sleep"
    /\ requests[r].exists
    /\ requests[r].state = ""
    /\ \A n \in Names : requests[n].vmIP # ip
    /\ requests' = updateRequestStatus(requests, r, "ready", ip,
                     IF isPublicIP(ip) THEN "ec2" ELSE "static", TRUE)
    /\ settled' = FALSE
    /\ UNCHANGED <<now, kratixOnly, sessions, virtualMachines,
                   processedSessions, updatedVMs, bpc, vmBy, projected,
                   tvmVars, auxVars>>

----------------------------------------------------------------------------
(* TrainingVM allocator: EnhancedVMAllocator.AllocateTrainingVMs runs
   CleanupVMStatuses and hands its usedIPs to AllocateTrainingVMs, every
   10 s. *)

NoTVM ==
    [exists |-> FALSE, state |-> "", vmIP |-> NoIP, allocatedAt |-> NoTime,
     provisioned |-> FALSE]

vmPool == staticVMPool

TVMExpired(q, t) ==
    /\ q.exists
    /\ q.state = "allocated"
    /\ q.allocatedAt # NoTime
    /\ t - q.allocatedAt > AllocationTimeout

(* CleanupVMStatuses.  failed: the TrainingVMs whose release patch fails
   (its error is discarded).  An expired TrainingVM's address is left out of
   usedIPs whether or not the patch landed. *)
CleanupVMStatuses(failed) ==
    /\ tpc = "cleanup"
    /\ tpc' = "allocate"
    /\ trainingVMs' =
         [n \in Names |->
            IF TVMExpired(trainingVMs[n], now) /\ n \notin failed
            THEN [trainingVMs[n] EXCEPT !.vmIP = NoIP, !.state = "",
                                        !.allocatedAt = NoTime]
            ELSE trainingVMs[n]]
    /\ tvmUsedIPs' =
         {trainingVMs[n].vmIP :
            n \in {m \in Names : /\ trainingVMs[m].exists
                                 /\ ~TVMExpired(trainingVMs[m], now)
                                 /\ trainingVMs[m].vmIP # NoIP}}
    /\ UNCHANGED <<now, requests, kratixOnly, bridgeVars, ec2TrainingVMs,
                   auxVars>>

(* HandleEC2Fallback for TrainingVM n.  st.ec2[n]: "absent", "pending" or
   "running" (status.vmIP set and state running). *)
HandleEC2Fallback(st, n, o, t) ==
    IF st.ec2[n] = "absent"
    THEN IF o = "storeErr" THEN st ELSE [st EXCEPT !.ec2[n] = "pending"]
    ELSE IF st.ec2[n] = "running" /\ o # "storeErr"
         THEN [st EXCEPT !.tvms[n].vmIP = FallbackIP(n),
                         !.tvms[n].state = "allocated",
                         !.tvms[n].allocatedAt = t]
         ELSE st

TVMOutcomes ==
    {"unreachable", "sshTimeout", "playbookError", "ok", "storeErr"}

(* One iteration of AllocateTrainingVMs' loop on the listed copy q of
   TrainingVM n.  o: for an allocated TrainingVM "unreachable"
   (isVMReachable fails), "sshTimeout", "playbookError", "ok"; "storeErr":
   the store call made for n (session Get, Create or patch) fails. *)
AllocateTVM(st, snap, n, reach, out, t) ==
    LET q == snap[n] IN
    IF ~q.exists THEN st
    ELSE IF q.state # "" /\ q.vmIP # NoIP
    THEN IF /\ q.allocatedAt # NoTime
            /\ ~q.provisioned
            /\ t - q.allocatedAt < getBootWaitTime(q.vmIP)
         THEN st
         ELSE IF out[n] # "unreachable"
         THEN IF ~q.provisioned /\ out[n] = "ok"
              THEN [st EXCEPT !.tvms[n].provisioned = TRUE]
              ELSE st
         ELSE IF /\ isPublicIP(q.vmIP)
                 /\ q.allocatedAt # NoTime
                 /\ t - q.allocatedAt < ElasticGrace
         THEN st
         ELSE [st EXCEPT !.tvms[n].vmIP = NoIP,
                         !.tvms[n].state = "",
                         !.tvms[n].allocatedAt = NoTime,
                         !.tvms[n].provisioned = FALSE]
    ELSE LET selectedIP == FirstFit(1, st.used, reach) IN
         IF selectedIP # NoIP
         THEN IF out[n] = "storeErr" THEN st
              ELSE [st EXCEPT !.tvms[n].vmIP = selectedIP,
                              !.tvms[n].state = "allocated",
                              !.tvms[n].allocatedAt = t,
                              !.tvms[n].provisioned = FALSE,
                              !.used = @ \cup {selectedIP}]
         ELSE HandleEC2Fallback(st, n, out[n], t)

RECURSIVE AllocateTVMsFrom(_, _, _, _, _, _)
AllocateTVMsFrom(st, snap, n, reach, out, t) ==
    IF n > MaxReq THEN st
    ELSE AllocateTVMsFrom(AllocateTVM(st, snap, n, reach, out, t),
                          snap, n + 1, reach, out, t)

(* AllocateTrainingVMs.  listOK: the List succeeds; reach: the pool
   addresses answering the probe; out[n]: the outcome for TrainingVM n. *)
AllocateTrainingVMs(listOK, reach, out) ==
    /\ tpc = "allocate"
    /\ tpc' = "sleep"
    /\ LET st0 == [tvms |-> trainingVMs, used |-> tvmUsedIPs,
                   ec2 |-> ec2TrainingVMs]
           st == IF listOK
                 THEN AllocateTVMsFrom(st0, trainingVMs, 1, reach, out, now)
                 ELSE st0
       IN  /\ trainingVMs' = st.tvms
           /\ ec2TrainingVMs' = st.ec2
    /\ UNCHANGED <<now, requests, kratixOnly, bridgeVars, tvmUsedIPs,
                   auxVars>>

TVMSleep ==
    /\ tpc = "sleep"
    /\ tpc' = "cleanup"
    /\ UNCHANGED <<now, requests, kratixOnly, bridgeVars, trainingVMs,
                   ec2TrainingVMs, tvmUsedIPs, auxVars>>

(* Environment of the allocator: the HobbyFarm controller creates a
   TrainingVM for a session, the cloud starts an EC2TrainingVM's instance,
   time passes. *)
CreateTrainingVM(n) ==
    /\ tpc = "sleep"
    /\ ~trainingVMs[n].exists
    /\ trainingVMs' = [trainingVMs EXCEPT ![n].exists = TRUE]
    /\ UNCHANGED <<now, requests, kratixOnly, bridgeVars, ec2TrainingVMs,
                   tvmUsedIPs, tpc, auxVars>>

EC2Runs(n) ==
    /\ tpc = "sleep"
    /\ ec2TrainingVMs[n] = "pending"
    /\ ec2TrainingVMs' = [ec2TrainingVMs EXCEPT ![n] = "running"]
    /\ UNCHANGED <<now, requests, kratixOnly, bridgeVars, trainingVMs,
                   tvmUsedIPs, tpc, auxVars>>

TVMAdvance(t) ==
    /\ tpc = "sleep"
    /\ t > now
    /\ now' = t
    /\ UNCHANGED <<requests, kratixOnly, bridgeVars, tvmVars, auxVars>>

----------------------------------------------------------------------------
(* HobbyFarm controller, the direct path: WatchHobbyFarmVMs calls
   updateHobbyFarmVMStatus in every tick, which writes the address of each
   allocated and provisioned TrainingVM onto a VirtualMachine of the
   session's user.  The TrainingVM of a session carries the session's name;
   VirtualMachines are listed in the order of their names. *)

ReadyTVMs ==
    {n \in Names : /\ trainingVMs[n].exists
                   /\ trainingVMs[n].state = "allocated"
                   /\ trainingVMs[n].provisioned
                   /\ trainingVMs[n].vmIP # NoIP}

(* The loop of updateCorrespondingVirtualMachine: the first listed VM of the
   session's user that is waiting without an address or is ready on this
   address; 0 when there is none. *)
RECURSIVE DirectMatchFrom(_, _, _, _)
DirectMatchFrom(vms, v, user, ip) ==
    IF v > MaxDirectVM THEN 0
    ELSE IF /\ vms[v].exists
            /\ vms[v].user = user
            /\ \/ vms[v].status = "readyforprovisioning"
                  /\ vms[v].public_ip = NoIP
               \/ vms[v].status = "ready" /\ vms[v].public_ip = ip
         THEN v
         ELSE DirectMatchFrom(vms, v + 1, user, ip)

DirectOutcomes ==
    {"ok", "sessionGetErr", "vmListErr", "specPatchErr", "statusPatchErr"}

(* updateCorrespondingVirtualMachine for the TrainingVM of session n with
   address ip.  o: "ok", "sessionGetErr", "vmListErr", "specPatchErr" (the
   patch of spec fails; it is only logged), "statusPatchErr" (the patch of
   status fails after the patch of spec has landed). *)
updateCorrespondingVirtualMachine(vms, n, ip, o) ==
    IF ~sessions[n].exists \/ o \in {"sessionGetErr", "vmListErr"} THEN vms
    ELSE LET v == DirectMatchFrom(vms, 1, sessions[n].user, ip)
             sshUsername == getSSHUsername(ip)
             spec1 == IF o = "specPatchErr" THEN vms
                      ELSE [vms EXCEPT ![v].ssh_username = sshUsername]
         IN  IF v = 0 THEN vms
             ELSE IF vms[v].status = "readyforprovisioning"
             THEN IF o = "statusPatchErr" THEN spec1
                  ELSE [spec1 EXCEPT ![v].status = "ready",
                                     ![v].public_ip = ip]
             ELSE IF vms[v].ssh_username # sshUsername THEN spec1
             ELSE vms

RECURSIVE DirectUpdateFrom(_, _, _)
DirectUpdateFrom(vms, n, out) ==
    IF n > MaxReq THEN vms
    ELSE DirectUpdateFrom(
            IF n \in ReadyTVMs
            THEN updateCorrespondingVirtualMachine(vms, n,
                                                   trainingVMs[n].vmIP, out[n])
            ELSE vms,
            n + 1, out)

(* updateHobbyFarmVMStatus.  listOK: the List of TrainingVMs succeeds;
   out[n]: what the store answers to the calls made for TrainingVM n. *)
updateHobbyFarmVMStatus(listOK, out) ==
    /\ directVMs' = IF listOK THEN DirectUpdateFrom(directVMs, 1, out)
                    ELSE directVMs
    /\ UNCHANGED <<now, requests, kratixOnly, bridgeVars, tvmVars,
                   cleanupVars, overlapVars, superVars, classifyVars>>

(* Environment of the direct path: a session of user u starts and the
   allocator brings its TrainingVM to allocated and provisioned on an
   address no other TrainingVM holds; HobbyFarm's VMClaim controller creates
   a VirtualMachine for a user. *)
TrainingVMBecomesReady(n, u, ip) ==
    /\ ~sessions[n].exists
    /\ ~trainingVMs[n].exists
    /\ \A m \in Names : trainingVMs[m].vmIP # ip
    /\ sessions' = [sessions EXCEPT ![n] = [exists |-> TRUE, user |-> u]]
    /\ trainingVMs' =
         [trainingVMs EXCEPT ![n] =
            [NoTVM EXCEPT !.exists = TRUE, !.state = "allocated",
                          !.vmIP = ip, !.allocatedAt = now,
                          !.provisioned = TRUE]]
    /\ UNCHANGED <<now, requests, kratixOnly, virtualMachines,
                   processedSessions, updatedVMs, bpc, vmBy, projected,
                   settled, ec2TrainingVMs, tvmUsedIPs, tpc, auxVars>>

CreateDirectVM(v, u) ==
    /\ ~directVMs[v].exists
    /\ directVMs' =
         [directVMs EXCEPT ![v] =
            [NoVM EXCEPT !.exists = TRUE, !.user = u,
                         !.status = "readyforprovisioning"]]
    /\ UNCHANGED <<now, requests, kratixOnly, bridgeVars, tvmVars,
                   cleanupVars, overlapVars, superVars, classifyVars>>

----------------------------------------------------------------------------
(* Periodic cleanup routine of startCommonServices: every 5 minutes it runs
   cleanupOrphanedResources (which touches TrainingVMs and requests only)
   and CleanupFailedEC2Instances. *)

NoEC2Record ==
    [exists |-> FALSE, state |-> "", creationTimestamp |-> NoTime]

EC2States == {"pending", "running", "failed", "terminated"}

(* The two conditions under which CleanupFailedEC2Instances deletes the
   listed record q at time t. *)
DeletionDue(q, t) ==
    /\ q.exists
    /\ \/ /\ q.state \in {"terminated", "failed"}
          /\ t - q.creationTimestamp > FailedInstanceTTL
       \/ /\ q.state = "pending"
          /\ t - q.creationTimestamp > PendingInstanceTTL

(* CleanupFailedEC2Instances.  listOK: the List succeeds; failed: the
   records whose Delete fails (logged, nothing else). *)
CleanupFailedEC2Instances(listOK, failed) ==
    /\ cpc = "cleanup"
    /\ cpc' = "sleep"
    /\ ec2Records' =
         IF ~listOK THEN ec2Records
         ELSE [n \in Names |->
                 IF DeletionDue(ec2Records[n], now) /\ n \notin failed
                 THEN NoEC2Record
                 ELSE ec2Records[n]]
    /\ stateSince' =
         [n \in Names |-> IF ec2Records'[n].exists THEN stateSince[n]
                          ELSE NoTime]
    /\ UNCHANGED <<now, requests, kratixOnly, bridgeVars, tvmVars,
                   overlapVars,
                   superVars,
                   laterVars>>

CleanupSleep ==
    /\ cpc = "sleep"
    /\ cpc' = "cleanup"
    /\ UNCHANGED <<now, requests, kratixOnly, bridgeVars, tvmVars,
                   ec2Records, stateSince, overlapVars,
                   superVars,
                   laterVars>>

(* Environment of the cleanup routine: a fallback handler creates an
   EC2TrainingVM, the cloud composition reports a new status.state for it,
   time passes. *)
CreateEC2Record(n) ==
    /\ cpc = "sleep"
    /\ ~ec2Records[n].exists
    /\ ec2Records' = [ec2Records EXCEPT ![n] =
                        [exists |-> TRUE, state |-> "pending",
                         creationTimestamp |-> now]]
    /\ stateSince' = [stateSince EXCEPT ![n] = now]
    /\ UNCHANGED <<now, requests, kratixOnly, bridgeVars, tvmVars, cpc,
                   overlapVars,
                   superVars,
                   laterVars>>

EC2StateChanges(n, s) ==
    /\ cpc = "sleep"
    /\ ec2Records[n].exists
    /\ ec2Records[n].state # s
    /\ ec2Records' = [ec2Records EXCEPT ![n].state = s]
    /\ stateSince' = [stateSince EXCEPT ![n] = now]
    /\ UNCHANGED <<now, requests, kratixOnly, bridgeVars, tvmVars, cpc,
                   overlapVars,
                   superVars,
                   laterVars>>

CleanupAdvance(t) ==
    /\ cpc = "sleep"
    /\ t > now
    /\ now' = t
    /\ UNCHANGED <<requests, kratixOnly, bridgeVars, tvmVars, auxVars>>

----------------------------------------------------------------------------
(* Overlapping allocation passes: allocateVMs run by several replicas of the
   controller against the same store, each pass split at its store calls
   (the List of refreshUsedIPs, the List of requests, the writes made for
   one listed request).  Nothing in the code elects a leader or locks the
   pool. *)

(* The map a pass consults when it picks an address: its own usedIPs, filled
   by refreshUsedIPs at the start of the pass and by its own writes. *)
usedAtWrite_Refreshed(q) == refreshUsedIPs(requests, TRUE)

usedAtWrite(q) == passUsed[q]

OverlapRefresh(q) ==
    /\ passPc[q] = "refresh"
    /\ passPc' = [passPc EXCEPT ![q] = "list"]
    /\ passUsed' = [passUsed EXCEPT ![q] = refreshUsedIPs(requests, TRUE)]
    /\ passEarly' = [passEarly EXCEPT
                       ![q] = \A o \in Passes \ {q} : wrote[o] = {}]
    /\ UNCHANGED <<now, requests, kratixOnly, bridgeVars, tvmVars,
                   cleanupVars, passList, passNext, wrote, reachable,
                   superVars,
                   laterVars>>

OverlapList(q) ==
    /\ passPc[q] = "list"
    /\ passPc' = [passPc EXCEPT ![q] = "write"]
    /\ passList' = [passList EXCEPT ![q] = requests]
    /\ passNext' = [passNext EXCEPT ![q] = 1]
    /\ UNCHANGED <<now, requests, kratixOnly, bridgeVars, tvmVars,
                   cleanupVars, passUsed, passEarly, wrote, reachable,
                   superVars,
                   laterVars>>

(* One iteration of the loop of pass q, on the next listed request; the
   addresses of reachable answer the probe and the store accepts the
   write. *)
OverlapWrite(q) ==
    /\ passPc[q] = "write"
    /\ LET r == passNext[q] IN
       IF r > MaxReq
       THEN /\ passPc' = [passPc EXCEPT ![q] = "done"]
            /\ UNCHANGED <<requests, instances, creates, allocSince,
                           failedSince, passUsed, passNext, wrote>>
       ELSE LET st0 == [reqs |-> requests, used |-> usedAtWrite(q),
                        inst |-> instances, calls |-> creates]
                st == AllocateOne(st0, passList[q], r, reachable,
                                  [n \in Names |-> "ok"], now)
            IN  /\ requests' = st.reqs
                /\ instances' = st.inst
                /\ creates' = st.calls
                /\ passUsed' = [passUsed EXCEPT ![q] = st.used]
                /\ passNext' = [passNext EXCEPT ![q] = r + 1]
                /\ wrote' = IF st = st0 THEN wrote
                            ELSE [wrote EXCEPT ![q] = @ \cup {r}]
                /\ allocSince' =
                      AllocHistory(requests, requests', allocSince, now)
                /\ failedSince' =
                      FailHistory(requests, requests', failedSince, now)
                /\ UNCHANGED passPc
    /\ UNCHANGED <<now, processedRequests, usedIPs, ec2vms, pc, bridgeVars,
                   tvmVars, cleanupVars, passList, passEarly, reachable,
                   superVars,
                   laterVars>>

(* Environment of the passes: a request without cloud fallback that the
   intake step has set to pending appears in the store. *)
OverlapIntake(r) ==
    /\ ~requests[r].exists
    /\ requests' = [requests EXCEPT
                      ![r] = [NewRequest(FALSE) EXCEPT !.state = "pending"]]
    /\ UNCHANGED <<now, kratixOnly, bridgeVars, tvmVars, auxVars>>

(* Environment of the passes: a pool machine goes down or comes back, so
   that isVMReachable answers for the addresses of R from now on. *)
ProbeChanges(R) ==
    /\ R # reachable
    /\ reachable' = R
    /\ UNCHANGED <<now, requests, kratixOnly, bridgeVars, tvmVars,
                   cleanupVars, passPc, passUsed, passList, passNext,
                   passEarly, wrote, superVars,
                   laterVars>>

----------------------------------------------------------------------------
(* The supervisor: main starts each reconciliation loop in a goroutine
   under runControllerWithRetry(ctx, name, controllerFunc). *)

Controllers == {"session", "allocator", "integration", "kratix"}

(* The loops that select on ctx.Done() between iterations; the others are
   `for { ...; time.Sleep(10 * time.Second) }` and never read ctx. *)
TickerLoops == {"allocator"}

Modes == {"hobbyfarm-only", "kratix-only", "hybrid-direct", "hybrid"}

ModeControllers(m) ==
    IF m = "kratix-only" THEN {"kratix"}
    ELSE IF m = "hybrid" THEN {"integration", "kratix"}
    ELSE {"session", "allocator"}

(* main: the controllers of the integration mode are started. *)
StartMode(m) ==
    /\ \A c \in Controllers : supPc[c] = "absent"
    /\ ~cancelled
    /\ supPc' = [c \in Controllers |->
                   IF c \in ModeControllers(m) THEN "select" ELSE "absent"]
    /\ UNCHANGED <<now, requests, kratixOnly, bridgeVars, tvmVars,
                   cleanupVars, overlapVars, cancelled, loopPc, retryCount,
                   backoffFor, crashes,
                   laterVars>>

(* main: a shutdown signal arrives and cancel() is called. *)
CancelContext ==
    /\ \E c \in Controllers : supPc[c] # "absent"
    /\ ~cancelled
    /\ cancelled' = TRUE
    /\ UNCHANGED <<now, requests, kratixOnly, bridgeVars, tvmVars,
                   cleanupVars, overlapVars, supPc, loopPc, retryCount,
                   backoffFor, crashes,
                   laterVars>>

(* runControllerWithRetry, the select at the head of its for loop: return
   when ctx is done, otherwise set retryCount to 0 and call controllerFunc.
   A ticker loop starts in its select, the others in their first
   iteration. *)
SupervisorSelect(c) ==
    /\ supPc[c] = "select"
    /\ IF cancelled
       THEN /\ supPc' = [supPc EXCEPT ![c] = "returned"]
            /\ UNCHANGED <<loopPc, retryCount>>
       ELSE /\ supPc' = [supPc EXCEPT ![c] = "run"]
            /\ retryCount' = [retryCount EXCEPT ![c] = 0]
            /\ loopPc' = [loopPc EXCEPT
                            ![c] = IF c \in TickerLoops THEN "wait"
                                   ELSE "iterate"]
    /\ UNCHANGED <<now, requests, kratixOnly, bridgeVars, tvmVars,
                   cleanupVars, overlapVars, cancelled, backoffFor, crashes,
                   laterVars>>

(* controllerFunc: one iteration of the loop completes. *)
ControllerIterates(c) ==
    /\ supPc[c] = "run"
    /\ loopPc[c] = "iterate"
    /\ loopPc' = [loopPc EXCEPT ![c] = "wait"]
    /\ UNCHANGED <<now, requests, kratixOnly, bridgeVars, tvmVars,
                   cleanupVars, overlapVars, cancelled, supPc, retryCount,
                   backoffFor, crashes,
                   laterVars>>

(* controllerFunc: the 10 s sleep ends, or the ticker fires, and the next
   iteration starts. *)
ControllerWakes(c) ==
    /\ supPc[c] = "run"
    /\ loopPc[c] = "wait"
    /\ loopPc' = [loopPc EXCEPT ![c] = "iterate"]
    /\ UNCHANGED <<now, requests, kratixOnly, bridgeVars, tvmVars,
                   cleanupVars, overlapVars, cancelled, supPc, retryCount,
                   backoffFor, crashes,
                   laterVars>>

(* controllerFunc of a ticker loop: its select takes <-ctx.Done() and the
   function returns; runControllerWithRetry loops. *)
ControllerReturns(c) ==
    /\ supPc[c] = "run"
    /\ c \in TickerLoops
    /\ loopPc[c] = "wait"
    /\ cancelled
    /\ supPc' = [supPc EXCEPT ![c] = "select"]
    /\ crashes' = [crashes EXCEPT ![c] = 0]
    /\ backoffFor' = [backoffFor EXCEPT ![c] = 0]
    /\ UNCHANGED <<now, requests, kratixOnly, bridgeVars, tvmVars,
                   cleanupVars, overlapVars, cancelled, loopPc, retryCount,
                   laterVars>>

(* controllerFunc panics in an iteration; the deferred function of
   runControllerWithRetry recovers: retryCount++, then either its `return`
   at the retry ceiling, which leaves the deferred function only, or the
   backoff sleep of retryCount * 10 s. *)
ControllerPanics(c) ==
    /\ supPc[c] = "run"
    /\ loopPc[c] = "iterate"
    /\ retryCount' = [retryCount EXCEPT ![c] = @ + 1]
    /\ crashes' = [crashes EXCEPT ![c] = IF @ < MaxCrash THEN @ + 1 ELSE @]
    /\ IF retryCount'[c] >= maxRetries
       THEN /\ supPc' = [supPc EXCEPT ![c] = "select"]
            /\ UNCHANGED backoffFor
       ELSE /\ supPc' = [supPc EXCEPT ![c] = "backoff"]
            /\ backoffFor' = [backoffFor EXCEPT
                                ![c] = retryCount'[c] * BackoffUnit]
    /\ UNCHANGED <<now, requests, kratixOnly, bridgeVars, tvmVars,
                   cleanupVars, overlapVars, cancelled, loopPc,
                   laterVars>>

(* runControllerWithRetry: the backoff sleep ends. *)
BackoffEnds(c) ==
    /\ supPc[c] = "backoff"
    /\ supPc' = [supPc EXCEPT ![c] = "select"]
    /\ UNCHANGED <<now, requests, kratixOnly, bridgeVars, tvmVars,
                   cleanupVars, overlapVars, cancelled, loopPc, retryCount,
                   backoffFor, crashes,
                   laterVars>>

----------------------------------------------------------------------------
(* isPublicIP as its callers use it (getVMType, getSSHUsername,
   getBootWaitTime, getSSHTimeout, isVMReachable): a caller hands it an
   address string and acts on the answer. *)

FirstOctets == {10, 54, 127, 169, 172, 192}

SecondOctets ==
    {0, 2, 3, 9, 10, 15, 16, 20, 31, 32, 100, 159, 160, 168, 200, 254, 255}

(* The address strings handed over: dotted quads, the empty string, and two
   strings net.ParseIP rejects (three octets; an octet above 255). *)
Addresses ==
    {<<a, b, 0, 1>> : a \in FirstOctets, b \in SecondOctets}
       \cup {NoIP, <<192, 168, 1>>, <<54, 300, 0, 1>>}

CallIsPublicIP(ip) ==
    /\ addr' = ip
    /\ classified' = ""
    /\ UNCHANGED <<now, requests, kratixOnly, bridgeVars, tvmVars,
                   cleanupVars, overlapVars, superVars, directVars>>

IsPublicIPReturns ==
    /\ classified = ""
    /\ classified' = IF isPublicIP(addr) THEN "public" ELSE "private"
    /\ UNCHANGED <<now, requests, kratixOnly, bridgeVars, tvmVars,
                   cleanupVars, overlapVars, superVars, directVars, addr>>

----------------------------------------------------------------------------

BridgeIdle ==
    /\ sessions = [s \in Names |-> NoSession]
    /\ virtualMachines = [v \in VMNames |-> NoVM]
    /\ processedSessions = {}
    /\ updatedVMs = {}
    /\ bpc = "process"
    /\ vmBy = [v \in VMNames |-> 0]
    /\ projected = {}
    /\ settled = FALSE

TVMIdle ==
    /\ trainingVMs = [n \in Names |-> NoTVM]
    /\ ec2TrainingVMs = [n \in Names |-> "absent"]
    /\ tvmUsedIPs = {}
    /\ tpc = "cleanup"

CleanupIdle ==
    /\ ec2Records = [n \in Names |-> NoEC2Record]
    /\ stateSince = [n \in Names |-> NoTime]
    /\ cpc = "sleep"

OverlapIdle ==
    /\ passPc = [q \in Passes |-> "refresh"]
    /\ passUsed = [q \in Passes |-> {}]
    /\ passList = [q \in Passes |-> [r \in Names |-> NoRequest]]
    /\ passNext = [q \in Passes |-> 1]
    /\ passEarly = [q \in Passes |-> FALSE]
    /\ wrote = [q \in Passes |-> {}]
    /\ reachable = PoolIPs

SupervisorIdle ==
    /\ cancelled = FALSE
    /\ supPc = [c \in Controllers |-> "absent"]
    /\ loopPc = [c \in Controllers |-> "wait"]
    /\ retryCount = [c \in Controllers |-> 0]
    /\ backoffFor = [c \in Controllers |-> 0]
    /\ crashes = [c \in Controllers |-> 0]

ClassifyIdle ==
    /\ addr = NoIP
    /\ classified = ""

DirectIdle ==
    /\ directVMs = [v \in DirectVMNames |-> NoVM]

Init ==
    /\ ClassifyIdle
    /\ DirectIdle
    /\ BridgeIdle
    /\ TVMIdle
    /\ CleanupIdle
    /\ OverlapIdle
    /\ SupervisorIdle
    /\ now = 0
    /\ requests = [r \in Names |-> NoRequest]
    /\ processedRequests = {}
    /\ usedIPs = {}
    /\ instances = [r \in Names |-> "absent"]
    /\ ec2vms = {}
    /\ pc = "process"
    /\ allocSince = [r \in Names |-> NoTime]
    /\ failedSince = [r \in Names |-> NoTime]
    /\ creates = [r \in Names |-> 0]

(* The requests each handler's loop body acts on: the inputs of a handler
   are the answers to the calls it makes for these. *)
ToInit ==
    {r \in Names : /\ requests[r].exists
                   /\ r \notin processedRequests
                   /\ requests[r].state = ""}

Pending ==
    {r \in Names : /\ requests[r].exists
                   /\ requests[r].state = "pending"
                   /\ requests[r].vmIP = NoIP}

Failing(S, cands) == IF FALSE \in S THEN SUBSET cands ELSE {{}}

(* One handler of the loop; S: the answers a store call can give (TRUE: it
   succeeds), A and P: the outcomes of an allocation and of a probe, R: the
   sets of pool addresses that may answer the liveness probe. *)
KratixStepOn(S, A, P, R) ==
    \/ \E listOK \in S, failed \in Failing(S, ToInit) :
          processVMProvisioningRequests(listOK, failed)
    \/ \E refreshOK \in S, listOK \in S,
          reach \in (IF Pending = {} THEN {PoolIPs} ELSE R),
          out \in [Pending -> A] :
          allocateVMs(refreshOK, listOK, reach, out)
    \/ \E listOK \in S, failed \in Failing(S, ec2vms) :
          monitorCloudInstances(listOK, failed)
    \/ \E listOK \in S, out \in [Provisionable(requests) -> P] :
          updateVMStatus(listOK, out)
    \/ \E listOK \in S,
          failed \in Failing(S, {r \in Names : Expired(requests[r], now)}) :
          cleanupExpiredAllocations(listOK, failed)
    \/ Sleep

KratixStep(S, A, P) == KratixStepOn(S, A, P, SUBSET PoolIPs)

KratixEnv ==
    \/ \E r \in Names, fb \in BOOLEAN : CreateRequest(r, fb)
    \/ \E r \in Names : InstanceRuns(r)
    \/ \E t \in KratixInstants : Advance(t)

(* The Kratix controller against a store whose calls may fail. *)
Next == KratixStep(BOOLEAN, AllocOutcomes, ProbeOutcomes) \/ KratixEnv

Spec == Init /\ [][Next]_vars

(* The same loop against a store that answers every call: what is left to
   the environment is the probe, the provisioner and the cloud.  The loop is
   scheduled fairly (it runs for ever, sleeping 10 s between ticks), the
   cloud eventually starts an instance it was asked for and the clock moves
   on. *)
NominalStep == KratixStep({TRUE}, {"ok"}, ProbeOutcomes \ {"patchLost"})

FairNext == NominalStep \/ KratixEnv

FairSpec ==
    /\ Init
    /\ [][FairNext]_vars
    /\ WF_vars(NominalStep)
    /\ \A r \in Names : SF_vars(InstanceRuns(r))
    /\ SF_vars(\E t \in KratixInstants : Advance(t))

(* The same loop, the store also holding EC2TrainingVMs that carry a
   kratix-request label and report an address. *)
CloudNext ==
    \/ NominalStep
    \/ KratixEnv
    \/ \E r \in Names : CloudVMReady(r)

CloudSpec == Init /\ [][CloudNext]_vars

(* The static happy path: the store answers every call, the first pool
   address answers the liveness probe whenever it is probed, and SSH and the
   playbook succeed on every reachable machine. *)
HappyStep ==
    KratixStepOn({TRUE}, {"ok"}, {"ok"},
                 {R \in SUBSET PoolIPs : staticVMPool[1] \in R})

HappyNext == HappyStep \/ KratixEnv

HappySpec == Init /\ [][HappyNext]_vars

(* The loop against a store that answers every call, over a day: request
   records are also deleted from the store (and created again under the same
   name), and the clock is observed once more after the 24 h tracking TTL. *)
TTLInstants == KratixInstants \cup {AllocationTimeout + ProcessedTTL + 2}

ChurnNext ==
    \/ NominalStep
    \/ KratixEnv
    \/ \E r \in Names : DeleteRequest(r)
    \/ \E t \in TTLInstants : Advance(t)

ChurnSpec == Init /\ [][ChurnNext]_vars

(* The bridge against a store whose calls may fail. *)
BridgeStep ==
    \/ \E listOK \in BOOLEAN,
          failed \in SUBSET {s \in Names : sessions[s].exists
                                            /\ s \notin processedSessions} :
          processHobbyFarmSessions(listOK, failed)
    \/ \E listOK \in BOOLEAN, out \in [Projectable -> BridgeOutcomes] :
          updateHobbyFarmVMsFromKratix(listOK, out)
    \/ \E listOK \in BOOLEAN : cleanupProcessedSessions(listOK)
    \/ \E listOK \in BOOLEAN : cleanupUpdatedVMs(listOK)
    \/ BridgeSleep

BridgeEnv ==
    \/ \E s \in Names, u \in Users : CreateSession(s, u)
    \/ \E s \in Names : DeleteSession(s)
    \/ \E v \in VMNames, u \in Users : CreateVirtualMachine(v, u)
    \/ \E v \in VMNames : ClearAddress(v)
    \/ \E r \in Names :
          \E ip \in PoolIPs \cup {InstanceIP(r)} : RequestBecomesReady(r, ip)

BridgeNext == BridgeStep \/ BridgeEnv

BridgeSpec == Init /\ [][BridgeNext]_vars

(* The TrainingVM allocator against a store whose calls may fail. *)
TVMStep ==
    \/ \E failed \in SUBSET {n \in Names : TVMExpired(trainingVMs[n], now)} :
          CleanupVMStatuses(failed)
    \/ \E listOK \in BOOLEAN, reach \in SUBSET PoolIPs,
          out \in [{n \in Names : trainingVMs[n].exists} -> TVMOutcomes] :
          AllocateTrainingVMs(listOK, reach, out)
    \/ TVMSleep

TVMEnv ==
    \/ \E n \in Names : CreateTrainingVM(n)
    \/ \E n \in Names : EC2Runs(n)
    \/ \E t \in TVMInstants : TVMAdvance(t)

TVMNext == TVMStep \/ TVMEnv

TVMSpec == Init /\ [][TVMNext]_vars

(* The periodic cleanup against a store that answers every call. *)
CleanupInstants ==
    {0, FailedInstanceTTL, FailedInstanceTTL + 1, PendingInstanceTTL + 1}

CleanupStep ==
    \/ CleanupFailedEC2Instances(TRUE, {})
    \/ CleanupSleep

CleanupEnv ==
    \/ \E n \in Names : CreateEC2Record(n)
    \/ \E n \in Names, s \in EC2States : EC2StateChanges(n, s)
    \/ \E t \in CleanupInstants : CleanupAdvance(t)

CleanupNext == CleanupStep \/ CleanupEnv

CleanupSpec == Init /\ [][CleanupNext]_vars

(* One allocation pass of each replica, interleaved at their store calls,
   against a store that answers every call. *)
OverlapStep ==
    \E q \in Passes : OverlapRefresh(q) \/ OverlapList(q) \/ OverlapWrite(q)

OverlapNext == OverlapStep \/ \E r \in Names : OverlapIntake(r)

OverlapSpec == Init /\ [][OverlapNext]_vars

(* The passes of one controller, each started after the one before it has
   ended, while pool machines go down and come back. *)
Turn(q) == \A o \in Passes : o < q => passPc[o] = "done"

PassStep ==
    \E q \in Passes :
       \/ Turn(q) /\ OverlapRefresh(q)
       \/ Turn(q) /\ OverlapList(q)
       \/ Turn(q) /\ OverlapWrite(q)

PassEnv ==
    \/ \E r \in Names : OverlapIntake(r)
    \/ \E R \in SUBSET PoolIPs : ProbeChanges(R)

PassNext == PassStep \/ PassEnv

PassSpec == Init /\ [][PassNext]_vars

(* The supervisor and the loops it runs; a loop may panic in any
   iteration. *)
SupervisorStep ==
    \E c \in Controllers :
       \/ SupervisorSelect(c)
       \/ ControllerIterates(c)
       \/ ControllerWakes(c)
       \/ ControllerReturns(c)
       \/ BackoffEnds(c)

SupervisorEnv ==
    \/ \E m \in Modes : StartMode(m)
    \/ \E c \in Controllers : ControllerPanics(c)
    \/ CancelContext

SupervisorNext == SupervisorStep \/ SupervisorEnv

SupervisorSpec == Init /\ [][SupervisorNext]_vars

(* The same, every goroutine scheduled fairly: a sleep ends, an iteration
   completes, and a select on which ctx.Done() is ready again and again
   eventually takes it. *)
FairSupervisorSpec ==
    /\ Init
    /\ [][SupervisorNext]_vars
    /\ \A c \in Controllers :
          /\ WF_vars(SupervisorSelect(c))
          /\ WF_vars(ControllerIterates(c))
          /\ WF_vars(ControllerWakes(c))
          /\ SF_vars(ControllerReturns(c))
          /\ WF_vars(BackoffEnds(c))

(* The allocator against a store that answers every call, while the
   provisioner is down: every allocated machine answers the reachability
   probe, and the SSH wait or the playbook fails on each of them. *)
ProvisionerDownStep ==
    \/ CleanupVMStatuses({})
    \/ \E reach \in SUBSET PoolIPs,
          out \in [{n \in Names : trainingVMs[n].exists} ->
                      {"sshTimeout", "playbookError"}] :
          AllocateTrainingVMs(TRUE, reach, out)
    \/ TVMSleep

ProvisionerDownNext == ProvisionerDownStep \/ TVMEnv

ProvisionerDownSpec == Init /\ [][ProvisionerDownNext]_vars

(* The HobbyFarm controller's status update against a store whose calls may
   fail. *)
DirectStep ==
    \E listOK \in BOOLEAN, out \in [ReadyTVMs -> DirectOutcomes] :
       updateHobbyFarmVMStatus(listOK, out)

DirectEnv ==
    \/ \E n \in Names, u \in Users :
          \E ip \in PoolIPs \cup {FallbackIP(n)} :
             TrainingVMBecomesReady(n, u, ip)
    \/ \E v \in DirectVMNames, u \in Users : CreateDirectVM(v, u)

DirectNext == DirectStep \/ DirectEnv

DirectSpec == Init /\ [][DirectNext]_vars

(* isPublicIP called on one address string after another. *)
ClassifyNext ==
    \/ \E ip \in Addresses : CallIsPublicIP(ip)
    \/ IsPublicIPReturns

ClassifySpec == Init /\ [][ClassifyNext]_vars

(* The allocator while the allocated machines are down: isVMReachable fails
   for the address of every allocated TrainingVM; the pool addresses of
   reach answer it when an address is picked, and the release patch of
   CleanupVMStatuses may fail. *)
MachinesDownStep ==
    \/ \E failed \in SUBSET {n \in Names : TVMExpired(trainingVMs[n], now)} :
          CleanupVMStatuses(failed)
    \/ \E reach \in SUBSET PoolIPs :
          AllocateTrainingVMs(TRUE, reach, [n \in Names |-> "unreachable"])
    \/ TVMSleep

MachinesDownNext == MachinesDownStep \/ TVMEnv

MachinesDownSpec == Init /\ [][MachinesDownNext]_vars

----------------------------------------------------------------------------
(* Properties of the Kratix path *)

Live(r) == requests[r].exists /\ requests[r].state \in LiveStates

\* C1: in the Kratix path no two requests whose state is allocated,
\* provisioning or ready hold the same static-pool vmIP, in any state the
\* controller's ticks can reach.
C1_UniqueStaticHandle ==
    \A r1, r2 \in Names :
        (r1 # r2 /\ Live(r1) /\ Live(r2) /\ requests[r1].vmIP \in PoolIPs)
            => requests[r1].vmIP # requests[r2].vmIP

(* A request whose allocation carries a timestamp that the allocation
   timeout has not yet overtaken: cleanupExpiredAllocations still has it to
   fail. *)
TimeoutPending(r) ==
    /\ requests[r].state = "allocated"
    /\ requests[r].allocatedAt # NoTime
    /\ now - requests[r].allocatedAt <= AllocationTimeout

\* C2: under fair scheduling of the controller tick every request that is
\* created eventually reaches a terminal outcome, state ready or state
\* failed (or is an allocation whose timeout is still to come when the
\* observed clock ends).
C2_EventuallyTerminal ==
    \A r \in Names :
        requests[r].exists
            ~> (requests[r].state \in TerminalStates \/ TimeoutPending(r))

\* C3: once a request has reached state ready or failed, no later step of
\* the controller loop changes its state.
C3_TerminalIsFinal ==
    [][\A r \in Names :
          (requests[r].exists /\ requests[r].state \in TerminalStates)
              => requests'[r].state = requests[r].state]_vars

----------------------------------------------------------------------------
(* Properties of the bridge *)

\* C4: when the bridge step updateHobbyFarmVMsFromKratix has run without a
\* store error and runs again on an unchanged set of requests (sessions
\* and VirtualMachines untouched from outside as well), the second run
\* writes to no VirtualMachine record.
C4_SecondRunWritesNothing ==
    [][(bpc = "update" /\ bpc' = "cleanupSessions" /\ settled)
          => virtualMachines' = virtualMachines]_vars

(* A VirtualMachine the bridge projected a request onto and whose address
   was cleared afterwards. *)
Cleared(v) ==
    /\ virtualMachines[v].exists
    /\ vmBy[v] # 0
    /\ requests[vmBy[v]].exists
    /\ virtualMachines[v].public_ip = NoIP

\* C5: after the bridge projected a ready request R with handle H onto a
\* VirtualMachine and an external actor cleared that VirtualMachine's
\* address, no later bridge step writes that VirtualMachine for (R, H)
\* again while R exists with handle H.
C5_NoReprojectionAfterClear ==
    [][(bpc = "update" /\ bpc' = "cleanupSessions")
          => \A v \in VMNames :
                Cleared(v) => ~(/\ virtualMachines'[v] # virtualMachines[v]
                                /\ vmBy'[v] = vmBy[v])]_vars

\* C6: the ledger updatedVMs holds an entry only for a (request, handle)
\* pair whose target VirtualMachine was actually updated; when no target is
\* found, or the session is gone, no entry is written.
C6_LedgerOnlyAfterProjection ==
    \A k \in updatedVMs : k[1] \in projected

----------------------------------------------------------------------------
(* Properties of the Kratix path, continued *)

\* C7: a pending request with cloudFallback.enabled false that the
\* allocation step leaves without a static handle is failed by that step,
\* its vmIP empty: after allocateVMs it is either allocated or failed.
C7_ExhaustedWithoutFallbackFails ==
    [][(pc = "allocate" /\ pc' = "monitor")
          => \A r \in Pending :
                ~requests[r].fallback
                    => \/ requests'[r].state = "allocated"
                       \/ /\ requests'[r].state = "failed"
                          /\ requests'[r].vmIP = NoIP]_vars

(* Allocated (static or elastic) for longer than d seconds and not
   provisioned. *)
AllocatedFor(r, d) ==
    /\ requests[r].exists
    /\ requests[r].state \in {"allocated", "provisioning"}
    /\ ~requests[r].provisioned
    /\ allocSince[r] # NoTime
    /\ now - allocSince[r] > d

\* C8: every request in state allocated or provisioning that was allocated
\* more than 1 hour ago, on a static or an elastic handle, and is not
\* provisioned is failed by the next cleanupExpiredAllocations step.
C8_TimeoutFailsEveryStaleAllocation ==
    [][(pc = "cleanup" /\ pc' = "sleep")
          => \A r \in Names :
                AllocatedFor(r, AllocationTimeout)
                    => requests'[r].state = "failed"]_vars

----------------------------------------------------------------------------
(* Properties of the TrainingVM path *)

TVMReady(n) ==
    /\ trainingVMs[n].exists
    /\ trainingVMs[n].state = "allocated"
    /\ trainingVMs[n].vmIP # NoIP
    /\ trainingVMs[n].provisioned

\* C9: once a TrainingVM is allocated and provisioned, no later allocator
\* tick (CleanupVMStatuses, then AllocateTrainingVMs) clears or changes its
\* vmIP, state or provisioned flag; the 1-hour allocation timeout leaves
\* provisioned TrainingVMs alone.
C9_ReadyTrainingVMIsKept ==
    [][\A n \in Names :
          TVMReady(n)
              => /\ trainingVMs'[n].vmIP = trainingVMs[n].vmIP
                 /\ trainingVMs'[n].state = trainingVMs[n].state
                 /\ trainingVMs'[n].provisioned]_vars

\* C10: a request allocated on an elastic (public) handle whose liveness
\* probe keeps failing is released or failed at the first tick after 10
\* minutes: no tick of the Kratix controller ends with a request still
\* allocated on an elastic handle it has held for more than 10 minutes.
C10_ElasticReleasedAfterGrace ==
    [][(pc = "cleanup" /\ pc' = "sleep")
          => \A r \in Names :
                ~(/\ requests'[r].exists
                  /\ requests'[r].state = "allocated"
                  /\ isPublicIP(requests'[r].vmIP)
                  /\ allocSince'[r] # NoTime
                  /\ now - allocSince'[r] > ElasticGrace)]_vars

----------------------------------------------------------------------------
(* Properties of the Kratix path: the static happy path *)

(* No live request holds the address ip. *)
FreeHandle(ip) == \A n \in Names : Live(n) => requests[n].vmIP # ip

\* C11: with pool [A, B], A free and answering the probe, a newly created
\* request (empty state) is initialised to pending by
\* processVMProvisioningRequests and the first pending request is allocated
\* handle A with vmType static by allocateVMs of the same tick (allocatedAt
\* set); once the static boot-wait has elapsed and probe, SSH and playbook
\* pass, updateVMStatus takes it through provisioning to ready with
\* provisioned = true and readyAt set, on the same handle.
C11_StaticHappyPath ==
    [][/\ (pc = "process" /\ pc' = "allocate")
          => \A r \in ToInit : /\ requests'[r].state = "pending"
                               /\ requests'[r].vmIP = NoIP
       /\ (pc = "allocate" /\ pc' = "monitor")
          => \A r \in Pending :
                ((\A q \in Pending : r <= q) /\ FreeHandle(staticVMPool[1]))
                    => /\ requests'[r].state = "allocated"
                       /\ requests'[r].vmIP = staticVMPool[1]
                       /\ requests'[r].vmType = "static"
                       /\ requests'[r].allocatedAt = now
                       /\ ~requests'[r].provisioned
       /\ (pc = "update" /\ pc' = "cleanup")
          => \A r \in Names :
                (/\ requests[r].exists
                 /\ requests[r].state = "allocated"
                 /\ requests[r].vmType = "static"
                 /\ requests[r].allocatedAt # NoTime
                 /\ now - requests[r].allocatedAt >= BootWaitStatic)
                    => /\ requests'[r].state = "ready"
                       /\ requests'[r].provisioned
                       /\ requests'[r].readyAt = now
                       /\ requests'[r].vmIP = requests[r].vmIP
                       /\ requests'[r].vmType = "static"]_vars

C11_Witness ==
    \E r \in Names :
        /\ requests[r].state = "ready"
        /\ requests[r].provisioned
        /\ requests[r].vmIP = staticVMPool[1]
        /\ requests[r].vmType = "static"
        /\ requests[r].allocatedAt # NoTime
        /\ requests[r].readyAt >= requests[r].allocatedAt + BootWaitStatic

----------------------------------------------------------------------------
(* Properties of the Kratix path: backends *)

\* C12: a request uses at most one backend resource: while the Instance
\* record created for a request exists the request holds no static-pool
\* handle, and no Instance is created for a request that holds one.
C12_AtMostOneBackend ==
    \A r \in Names :
        (requests[r].exists /\ instances[r] # "absent")
            => requests[r].vmIP \notin PoolIPs

(* A failed request that keeps a static-pool address in its status and whose
   tracking TTL (24 h, counted by the code from allocatedAt) has not passed. *)
FailedOnStatic(r) ==
    /\ requests[r].exists
    /\ requests[r].state = "failed"
    /\ requests[r].vmIP \in PoolIPs
    /\ requests[r].allocatedAt # NoTime
    /\ now - requests[r].allocatedAt <= ProcessedTTL

\* C13: the static handle of a request that became failed (provisioner
\* error or allocation timeout) stays marked used: while the failed
\* request's record exists and its tracking TTL has not passed, no other
\* request is allocated that handle.
C13_FailedHandleStaysUsed ==
    \A r1, r2 \in Names :
        (r1 # r2 /\ FailedOnStatic(r1) /\ Live(r2))
            => requests[r2].vmIP # requests[r1].vmIP

----------------------------------------------------------------------------
(* Properties of the bridge: store errors *)

\* C14: a failed List call during a tick changes no state: the cleanup
\* steps of the bridge remove no processedSessions marker of a session that
\* still exists and no updatedVMs entry of a request that still exists with
\* that handle (whatever the List answers); the step is retried next tick.
C14_FailedListChangesNothing ==
    [][/\ (bpc = "cleanupSessions" /\ bpc' = "cleanupVMs")
          => \A s \in processedSessions :
                sessions[s].exists => s \in processedSessions'
       /\ (bpc = "cleanupVMs" /\ bpc' = "sleep")
          => \A k \in updatedVMs :
                (requests[k[1]].exists /\ requests[k[1]].vmIP = k[2])
                    => k \in updatedVMs']_vars

----------------------------------------------------------------------------
(* Properties of the Kratix path: errors *)

\* C15: a request becomes failed only through resource exhaustion with
\* fallback disabled (in allocateVMs), a provisioner or readiness failure
\* (in updateVMStatus) or the allocation timeout (in
\* cleanupExpiredAllocations); a failing store operation, also during
\* elastic acquisition, never moves a request to failed.
C15_FailedOnlyByExhaustionProvisionerTimeout ==
    [][\A r \in Names :
          (requests[r].exists /\ requests[r].state # "failed"
                              /\ requests'[r].state = "failed")
              => \/ pc = "allocate" /\ ~requests[r].fallback
                 \/ pc = "update"
                 \/ pc = "cleanup" /\ Expired(requests[r], now)]_vars

----------------------------------------------------------------------------
(* Properties of the Kratix path: elastic acquisition *)

C17_BackendTypeImmutable ==
    [][\A r \in Names :
          (requests[r].exists /\ requests[r].vmType # "")
              => requests'[r].vmType = requests[r].vmType]_vars

\* C18: status.provisioned is true only after the provisioner ran
\* successfully for the request: in every reachable state of the Kratix
\* path provisioned = true implies state = ready, every status write that
\* sets another state setting provisioned = false.
C18_ProvisionedOnlyWhenReady ==
    \A r \in Names :
        (requests[r].exists /\ requests[r].provisioned)
            => requests[r].state = "ready"

(* A request that was ready and whose status a later write set back to
   allocated. *)
C18_Witness ==
    \E r \in Names :
        /\ requests[r].exists
        /\ requests[r].readyAt # NoTime
        /\ requests[r].state = "allocated"
        /\ ~requests[r].provisioned

----------------------------------------------------------------------------
(* Properties of the Kratix path: tracking markers *)

\* C19: when a request's record is deleted from the store it is dropped
\* from processedRequests by the next tick (no tick ends with the marker
\* of a record that is gone), so that a request created later under the same
\* name is initialised to pending by processVMProvisioningRequests like any
\* new request.
C19_DeletedRequestIsForgotten ==
    [][/\ (pc = "cleanup" /\ pc' = "sleep")
          => \A r \in Names :
                ~requests'[r].exists => r \notin processedRequests'
       /\ (pc = "process" /\ pc' = "allocate")
          => \A r \in Names :
                (requests[r].exists /\ requests[r].state = "")
                    => requests'[r].state = "pending"]_vars

(* In state failed or released for longer than d seconds. *)
FailedFor(r, d) ==
    /\ requests[r].exists
    /\ requests[r].state \in {"failed", "released"}
    /\ failedSince[r] # NoTime
    /\ now - failedSince[r] > d

\* C20: for every request that has been failed or released for more than
\* 24 hours, cleanupExpiredAllocations removes its processedRequests marker;
\* the removal does not change the request's state, a failed request stays
\* failed on all later ticks.
C20_MarkerDroppedAfterTTL ==
    [][/\ (pc = "cleanup" /\ pc' = "sleep")
          => \A r \in Names :
                FailedFor(r, ProcessedTTL) => r \notin processedRequests'
       /\ \A r \in Names :
             (requests[r].exists /\ requests[r].state = "failed"
                                 /\ requests'[r].exists)
                 => requests'[r].state = "failed"]_vars

----------------------------------------------------------------------------
(* Properties of the periodic cleanup of elastic instance records *)

(* The record of n has been in a state of S for more than d seconds. *)
InStateFor(n, S, d) ==
    /\ ec2Records[n].exists
    /\ ec2Records[n].state \in S
    /\ now - stateSince[n] > d

\* C21: a cleanup pass deletes an elastic instance record exactly when the
\* record has been in state failed or terminated for more than 5 minutes or
\* in state pending for more than 10 minutes; a running record and a record
\* that entered its state more recently are kept.
C21_DeletedExactlyWhenStale ==
    [][(cpc = "cleanup" /\ cpc' = "sleep") =>
         \A n \in Names :
            ec2Records[n].exists =>
               (~ec2Records'[n].exists <=>
                  \/ InStateFor(n, {"failed", "terminated"}, FailedInstanceTTL)
                  \/ InStateFor(n, {"pending"}, PendingInstanceTTL))]_vars

\* C22: the bridge writes an address only onto a VirtualMachine that
\* belongs to the user of the request's session, has status
\* readyforprovisioning and has no public_ip yet; the public_ip of a
\* VirtualMachine that already has one is never overwritten.
C22_WritesOnlyUnassignedTarget ==
    [][(bpc = "update" /\ bpc' = "cleanupSessions") =>
         \A v \in VMNames :
            virtualMachines'[v].public_ip # virtualMachines[v].public_ip =>
               /\ virtualMachines[v].status = "readyforprovisioning"
               /\ virtualMachines[v].public_ip = NoIP
               /\ \E r \in Names :
                     /\ sessions[r].exists
                     /\ sessions[r].user = virtualMachines[v].user
                     /\ requests[r].vmIP = virtualMachines'[v].public_ip]_vars

(* The ledger entries whose request is gone from the store. *)
Orphaned == {k \in updatedVMs : ~requests[k[1]].exists}

\* C23: after every bridge tick the ledger updatedVMs holds no entry whose
\* request no longer exists in the store; an entry is added only by a
\* projection that succeeded, and an entry is removed only when its request
\* has disappeared.
C23_LedgerTracksRequests ==
    [][/\ (bpc = "cleanupVMs" /\ bpc' = "sleep") =>
            /\ {k \in updatedVMs' : ~requests'[k[1]].exists} = {}
            /\ updatedVMs \ updatedVMs' \subseteq Orphaned
       /\ (bpc = "update" /\ bpc' = "cleanupSessions") =>
            /\ updatedVMs \subseteq updatedVMs'
            /\ \A k \in updatedVMs' \ updatedVMs :
                  \E v \in VMNames :
                     /\ virtualMachines'[v].public_ip = k[2]
                     /\ virtualMachines'[v].status = "ready"
       /\ (bpc \notin {"update", "cleanupVMs"}) => updatedVMs' = updatedVMs]_vars

----------------------------------------------------------------------------
(* Properties of the TrainingVM path, continued *)

\* C24: in the TrainingVM path no two TrainingVMs in state allocated hold
\* the same static-pool vmIP, whatever the allocator ticks did before,
\* ticks whose release patch or allocation patch failed included.
C24_UniqueTrainingVMHandle ==
    \A m, n \in Names :
       /\ m # n
       /\ trainingVMs[m].exists /\ trainingVMs[n].exists
       /\ trainingVMs[m].state = "allocated"
       /\ trainingVMs[n].state = "allocated"
       /\ trainingVMs[m].vmIP \in PoolIPs
       => trainingVMs[m].vmIP # trainingVMs[n].vmIP

----------------------------------------------------------------------------
(* Properties of overlapping allocation passes *)

\* C25: when two allocation passes over the same static pool overlap, each
\* having computed its usedIPs before any allocation write of the other had
\* landed, and each allocates one request, a different one that no other
\* pass writes, then both requests hold the same static handle.
C25_OverlappingPassesShareHandle ==
    \A p, q \in Passes : \A r, s \in Names :
       /\ p # q /\ r # s
       /\ passEarly[p] /\ passEarly[q]
       /\ wrote[p] = {r} /\ wrote[q] = {s}
       /\ \A o \in Passes \ {p, q} : wrote[o] \cap {r, s} = {}
       => /\ requests[r].state = "allocated"
          /\ requests[s].state = "allocated"
          /\ requests[r].vmIP \in PoolIPs
          /\ requests[r].vmIP = requests[s].vmIP

C25_Witness ==
    /\ passEarly[1] /\ passEarly[2]
    /\ wrote[1] = {2} /\ wrote[2] = {1}
    /\ passPc[1] = "done" /\ passPc[2] = "done"
    /\ Live(1) /\ Live(2)
    /\ requests[1].vmIP = staticVMPool[1]
    /\ requests[2].vmIP = staticVMPool[1]

----------------------------------------------------------------------------
(* Properties of the supervisor *)

\* C26: a loop that keeps crashing is restarted with a backoff that grows
\* with the number of consecutive crashes, and after maxRetries (5)
\* consecutive crashes it is not restarted again.
C26_GrowingBackoffAndCeiling ==
    [][\A c \in Controllers :
          /\ (supPc[c] = "run" /\ supPc'[c] = "backoff" /\ crashes[c] >= 1)
                => backoffFor'[c] > backoffFor[c]
          /\ crashes[c] >= maxRetries => supPc'[c] # "run"]_vars

(* The controllers the supervisor has been asked to run. *)
Started == {c \in Controllers : supPc[c] # "absent"}

\* C27: once the process context is cancelled, every reconciliation loop
\* started under runControllerWithRetry eventually stops: its supervisor
\* returns, the loop no longer running.
C27_CancelStopsEveryLoop ==
    cancelled ~> (\A c \in Started : supPc[c] = "returned")

----------------------------------------------------------------------------
(* Properties of the Kratix path: provisioner failure, readiness timeout *)

(* updateVMStatus turns request r failed in this step: the SSH wait or the
   playbook failed for it. *)
ProvisionerFails(r) ==
    /\ pc = "update" /\ pc' = "cleanup"
    /\ requests[r].state # "failed"
    /\ requests'[r].state = "failed"

\* C28: when the provisioner fails for a request that updateVMStatus moved
\* to provisioning, the request becomes failed with provisioned = false and
\* its vmIP unchanged, and from then on it stays failed with that vmIP: no
\* later tick provisions it again.
C28_ProvisionerFailureIsFinal ==
    [][\A r \in Names :
          /\ ProvisionerFails(r) =>
                /\ r \in Provisionable(requests)
                /\ ~requests'[r].provisioned
                /\ requests'[r].vmIP = requests[r].vmIP
          /\ (requests[r].state = "failed" /\ requests[r].vmIP # NoIP
              /\ requests'[r].exists) =>
                /\ requests'[r].state = "failed"
                /\ requests'[r].vmIP = requests[r].vmIP]_vars

----------------------------------------------------------------------------
(* Properties of the TrainingVM path: provisioner failure *)

(* AllocateTrainingVMs runs the provisioner on TrainingVM n in this tick:
   n is allocated on an address, not provisioned, and its boot wait is
   over. *)
ProvisioningDue(n) ==
    /\ trainingVMs[n].exists
    /\ trainingVMs[n].state # ""
    /\ trainingVMs[n].vmIP # NoIP
    /\ ~trainingVMs[n].provisioned
    /\ \/ trainingVMs[n].allocatedAt = NoTime
       \/ now - trainingVMs[n].allocatedAt
             >= getBootWaitTime(trainingVMs[n].vmIP)

\* C29: in the TrainingVM path, when the provisioner (SSH wait or playbook)
\* fails for an allocated TrainingVM, the TrainingVM becomes failed, and a
\* failed TrainingVM stays failed and unprovisioned on later ticks.
C29_TrainingVMProvisionerFailureFails ==
    [][\A n \in Names :
          /\ (tpc = "allocate" /\ tpc' = "sleep" /\ ProvisioningDue(n))
                => trainingVMs'[n].state = "failed"
          /\ (trainingVMs[n].state = "failed" /\ trainingVMs'[n].exists)
                => /\ trainingVMs'[n].state = "failed"
                   /\ ~trainingVMs'[n].provisioned]_vars

(* Request r has been allocated on a static handle for more than d seconds
   and is still not provisioned: no liveness probe of its address has
   succeeded since its boot wait ended. *)
UnreachableStaticFor(r, d) ==
    /\ requests[r].exists
    /\ requests[r].state = "allocated"
    /\ requests[r].vmIP \in PoolIPs
    /\ ~requests[r].provisioned
    /\ allocSince[r] # NoTime
    /\ now - allocSince[r] > d

\* C30: a request allocated on a static handle whose liveness probe has not
\* succeeded within the grace period (at the latest the allocation timeout)
\* is released by the end of the tick: its vmIP is cleared, which frees the
\* pool slot, and it is back in a state from which it is allocated again.
C30_UnreachableStaticIsReleased ==
    [][(pc = "cleanup" /\ pc' = "sleep")
          => \A r \in Names :
                UnreachableStaticFor(r, AllocationTimeout)
                    => /\ requests'[r].vmIP = NoIP
                       /\ requests'[r].state \in {"released", "pending", ""}]_vars

----------------------------------------------------------------------------
(* Properties of the static allocation policy *)

(* The positions of the pool that pass q may pick: the address is not in the
   pass's usedIPs and answers the liveness probe. *)
FreeAt(q) ==
    {i \in 1..Len(staticVMPool) : /\ staticVMPool[i] \notin passUsed[q]
                                  /\ staticVMPool[i] \in reachable}

(* This step is the iteration of pass q on request r, which the pass listed
   as pending and without an address. *)
Picks(q, r) ==
    /\ passPc[q] = "write"
    /\ passNext[q] = r
    /\ passNext'[q] = r + 1
    /\ passList[q][r].exists
    /\ passList[q][r].state = "pending"
    /\ passList[q][r].vmIP = NoIP

(* C31: static allocation is first-fit.  When a pass handles a pending
   request, the request is allocated the pool address of the lowest position
   that is neither in usedIPs nor failing the liveness probe, and that
   address joins usedIPs; the request is left without an address only when
   every pool address is used or unreachable.  The requests that one pass
   (and no other) allocated hold pairwise distinct addresses. *)
C31_FirstFitDistinct ==
    /\ [][\A q \in Passes, r \in Names :
            Picks(q, r) =>
               IF FreeAt(q) = {}
               THEN /\ requests'[r] = requests[r]
                    /\ passUsed'[q] = passUsed[q]
               ELSE LET i == CHOOSE i \in FreeAt(q) :
                                 \A j \in FreeAt(q) : i <= j
                    IN  /\ requests'[r].state = "allocated"
                        /\ requests'[r].vmType = "static"
                        /\ requests'[r].vmIP = staticVMPool[i]
                        /\ passUsed'[q] = passUsed[q] \cup {staticVMPool[i]}]_vars
    /\ [](\A q \in Passes : \A r, s \in wrote[q] :
             /\ r # s
             /\ \A o \in Passes \ {q} : wrote[o] \cap {r, s} = {}
             => /\ requests[r].vmIP \in PoolIPs
                /\ requests[s].vmIP \in PoolIPs
                /\ requests[r].vmIP # requests[s].vmIP)

(* One pass allocated both requests: the first while the first pool address
   did not answer the probe, the second after it had come back. *)
C31_Witness ==
    \E q \in Passes :
       /\ wrote[q] = {1, 2}
       /\ \A o \in Passes \ {q} : wrote[o] = {}
       /\ requests[1].vmIP = staticVMPool[2]
       /\ requests[2].vmIP = staticVMPool[1]

----------------------------------------------------------------------------
(* Properties of the Kratix path: boot wait *)

(* C32: a request leaves state allocated (the provisioner is invoked on it:
   the only such write of updateVMStatus is the one to provisioning made
   right before WaitForSSH) only when the boot wait of its backend, 30 s for
   a static address and 2 min for an elastic one, has elapsed since it was
   allocated. *)
C32_NoProvisioningBeforeBootWait ==
    [][\A r \in Names :
          /\ requests[r].exists
          /\ requests[r].state = "allocated"
          /\ requests'[r].exists
          /\ requests'[r].state # "allocated"
          => /\ allocSince[r] # NoTime
             /\ now - allocSince[r] >= getBootWaitTime(requests[r].vmIP)]_vars

----------------------------------------------------------------------------
(* Properties of the TrainingVM path: release of an unreachable machine *)

(* TrainingVM n is allocated on a static pool address and its boot wait is
   over when the allocation step of this tick runs. *)
ReleaseDue(n) ==
    /\ tpc = "allocate"
    /\ tpc' = "sleep"
    /\ trainingVMs[n].exists
    /\ trainingVMs[n].state = "allocated"
    /\ trainingVMs[n].vmIP \in PoolIPs
    /\ \/ trainingVMs[n].provisioned
       \/ trainingVMs[n].allocatedAt = NoTime
       \/ now - trainingVMs[n].allocatedAt >=
             getBootWaitTime(trainingVMs[n].vmIP)

(* C33: when the static address of an allocated TrainingVM fails the
   liveness probe after the boot wait, the allocation step clears vmIP, state
   and allocatedAt and sets provisioned to false (the record the next tick
   takes for one that needs allocation), and no TrainingVM holds the freed
   address at the end of that tick. *)
C33_UnreachableStaticIsFreed ==
    [][\A n \in Names :
          ReleaseDue(n) =>
             /\ trainingVMs'[n] = [NoTVM EXCEPT !.exists = TRUE]
             /\ \A m \in Names :
                   trainingVMs'[m].vmIP # trainingVMs[n].vmIP]_vars

----------------------------------------------------------------------------
(* Properties of the address classification *)

(* The address strings the classification is to take for private: the empty
   and the unparsable ones, and the IPv4 addresses of 10.0.0.0/8,
   192.168.0.0/16, 172.16.0.0 - 172.31.255.255, 169.254.0.0/16 and
   127.0.0.0/8. *)
PrivateAddress(ip) ==
    \/ ip = NoIP
    \/ ~ParseIP(ip)
    \/ ip[1] = 10
    \/ ip[1] = 192 /\ ip[2] = 168
    \/ ip[1] = 172 /\ ip[2] \in 16..31
    \/ ip[1] = 169 /\ ip[2] = 254
    \/ ip[1] = 127

(* C34: isPublicIP returns false exactly for the empty and the unparsable
   address strings and for the addresses of the private, link-local and
   loopback ranges, and true for every other IPv4 address; a 172.x.y.z
   address with x outside 16..31 is public. *)
C34_PublicExactlyOutsidePrivateRanges ==
    classified # "" => (classified = "private" <=> PrivateAddress(addr))

----------------------------------------------------------------------------
(* Properties of the direct path *)

(* The VirtualMachine records that carry the address ip. *)
Carrying(ip) ==
    {v \in DirectVMNames : directVMs[v].exists /\ directVMs[v].public_ip = ip}

(* C35: in the direct path the address of one ready TrainingVM is written
   onto at most one VirtualMachine record, whatever the number of ticks, the
   order of the VirtualMachines and the number of VirtualMachines of the
   user that wait in readyforprovisioning. *)
C35_HandleOnAtMostOneVirtualMachine ==
    \A n \in ReadyTVMs : Cardinality(Carrying(trainingVMs[n].vmIP)) <= 1

----------------------------------------------------------------------------
(* Properties of the bridge and of the direct path: the SSH user *)

(* Record q becomes ready with an address in this step: p is the record
   before the step. *)
SetReady(p, q) ==
    /\ q.exists
    /\ q.status = "ready"
    /\ q.public_ip # NoIP
    /\ (p.status # "ready" \/ p.public_ip # q.public_ip)

(* The SSH user of a machine: kube on a private (static) address, ubuntu on
   a public (EC2) one. *)
SSHUserWritten(q) ==
    q.ssh_username = IF q.public_ip \in PoolIPs THEN "kube" ELSE "ubuntu"

(* C36: whenever a VirtualMachine is set to ready with an address, the
   ssh_username written on the record is kube when the address is private
   (static) and ubuntu when it is public (EC2). *)
C36_SSHUserFollowsAddress ==
    [][/\ \A v \in VMNames :
             SetReady(virtualMachines[v], virtualMachines'[v])
                => SSHUserWritten(virtualMachines'[v])
       /\ \A v \in DirectVMNames :
             SetReady(directVMs[v], directVMs'[v])
                => SSHUserWritten(directVMs'[v])]_vars

----------------------------------------------------------------------------
(* Properties of the Kratix path: frame of the allocation step *)

(* C37: allocateVMs modifies only requests that are pending and have no
   address; a request in any other state, and a request that has a vmIP, is
   left as it was by the step. *)
C37_AllocationTouchesOnlyPending ==
    [][pc = "allocate" /\ pc' = "monitor" =>
          \A r \in Names :
             requests[r].state # "pending" \/ requests[r].vmIP # NoIP
                => requests'[r] = requests[r]]_vars

(* allocateVMs has just allocated request 2 while request 1, allocated in an
   earlier tick, was in the list. *)
C37_Witness ==
    /\ pc = "monitor"
    /\ requests[1].state \in {"allocated", "ready", "failed"}
    /\ allocSince[2] = now
    /\ requests[2].state = "allocated"
    /\ now > 0

----------------------------------------------------------------------------
(* Properties of the bridge: intake of sessions *)

(* A run of processHobbyFarmSessions. *)
IntakeRun == bpc = "process" /\ bpc' = "update"

(* A run of cleanupProcessedSessions. *)
MarkerCleanupRun == bpc = "cleanupSessions" /\ bpc' = "cleanupVMs"

(* C38: the intake marks a session processed only in the run that created
   its VMProvisioningRequest; a session whose Create failed stays unmarked
   and is a candidate of the next run; no run writes a request over an
   existing one, so a session never has a second request; and after a run of
   cleanupProcessedSessions no marker is left for a session that no longer
   exists. *)
C38_MarkedOnlyAfterCreate ==
    [][/\ \A s \in Names :
             s \notin processedSessions /\ s \in processedSessions'
                => /\ IntakeRun
                   /\ sessions[s].exists
                   /\ ~requests[s].exists
                   /\ requests'[s].exists
       /\ IntakeRun =>
             \A s \in Names :
                /\ requests[s].exists => requests'[s] = requests[s]
                /\ sessions[s].exists /\ s \notin processedSessions
                      /\ requests'[s] = requests[s]
                      => s \notin processedSessions'
       /\ MarkerCleanupRun =>
             \A s \in processedSessions' : sessions[s].exists]_vars

(* After one intake run session 1 is marked and has its request while the
   Create for session 2 failed: it is unmarked and has no request. *)
C38_Witness ==
    /\ bpc = "update"
    /\ sessions[1].exists /\ sessions[2].exists
    /\ 1 \in processedSessions /\ requests[1].exists
    /\ 2 \notin processedSessions /\ ~requests[2].exists

====
